---- MODULE Spec2Model ----
(***************************************************************************)
(* logfather: the shared Logger configuration, the dispatch functions      *)
(* log / structured_log / result_log and the three background loops        *)
(* (terminal_output, file_output, file_roller) over the two line queues    *)
(* and the shared file handle.                                             *)
(***************************************************************************)
EXTENDS Integers, Sequences, FiniteSets, TLC

\* ------------------------------------------------------------------ bounds
\* number of setter calls made in one behaviour of SpecConfig
MaxSets == 3
\* number of log / result_log calls made in one behaviour of Spec
MaxLogs == 2
\* number of log calls made in one behaviour of FairSpec
MaxFairLogs == 2
\* number of dispatch calls made in one behaviour of SpecDispatch
MaxCalls == 1
\* number of times the disk changes between working and failing
MaxDisk == 1
\* number of lines the log file holds at the start of a behaviour of SpecRoll
MaxFileLines == 3
\* largest rollover threshold configured in SpecRoll
MaxThreshold == 2
\* number of log calls made in one behaviour of SpecRoll
MaxRollLogs == 2

\* ------------------------------------------------------------------ Level
\* enum Level, ordered by the derived Ord (declaration order = discriminant)
Trace == 0
Debug == 1
Info == 2
Warning == 3
Error == 4
Critical == 5
Diagnostic == 245
None == 255
\* Level::Fatal: macros.rs logs at it (fatal!, r_fatal!), logger.rs does not
\* show its declaration; the specification places it between Critical and
\* Diagnostic
Fatal == 6

Level == {Trace, Debug, Info, Warning, Error, Critical, Fatal, Diagnostic, None}

\* fault variant of lt: Diagnostic compares as the lowest level
lt_diagnostic_lowest(a, b) ==
  a # b /\ (a = Diagnostic \/ (b # Diagnostic /\ a < b))

\* #[derive(PartialOrd, Ord)] on Level: variants compare by discriminant
lt(a, b) == a < b

\* ------------------------------------------------------------------ inputs
Loggers == {"a", "b"}
Callers == {"t1", "t2"}
\* the caller of the specifications with one calling thread
OneCaller == {"t1"}
\* the Logger value the pipeline is configured through
PipeLoggers == {"a"}
NoPath == "no_path"
GoodPath == "log.txt"
BadPath == "/proc/none/log.txt"
\* a file that exists and that the process may open for writing, not for
\* reading
WriteOnlyPath == "writeonly.txt"
PathArgs == {GoodPath, BadPath}
IgnoreArgs == {Error, Diagnostic}
StyleLevels == {Info}
StyleSets == {<<"Bold">>}
StyleArgs == {"Bold"}
RolloverArgs == {1}
\* the lengths in bytes a rendered text takes: far below the capacity of a
\* BufWriter, above half of it (a second text does not fit), and above it
LineSizes == {100, 5000, 9000}
ShortLines == {100}

VARIABLES
  LOGGER,            \* the shared configuration (RwLock<Logger>)
  logger,            \* the Logger values owned by the callers
  TERMINAL_BUFFER,   \* the terminal queue
  FILE_BUFFER,       \* the file queue
  FILE,              \* the shared file handle: "none", "open", or "pipe"
                     \* (a handle on a file that cannot seek)
  LOCKED,            \* the rollover-in-progress flag
  fileLines,         \* the lines of the log file on disk
  stream,            \* the lines written to the terminal stream
  disk,              \* "ok" or "fail": whether file writes succeed now
  stdout,            \* "ok" or "broken": whether writes to stdout succeed
  build,             \* "debug" or "release": cfg(debug_assertions) of the build
  slept,             \* per loop: the interval of the sleep it is in or has just
                     \* left, "none" while it works through a cycle
  tail,              \* the text in the log file after its last line terminator
  queueLock,         \* holder of each queue's lock: T terminal queue, F file queue
  fmt,               \* one rendering of the format template: inputs and outputs
  calls,             \* every dispatch call made: caller, kind, level, snapshot, result
  cur,               \* per caller: pc and the id of the call it is in
  term,              \* the terminal sink loop: pc, snapshot, writer buffer
  sink,              \* the file sink loop: pc, snapshot, writer buffer
  roller,            \* the rollover loop: pc, snapshot, lines read, kept lines
                     \* left to write, BufWriter content
  fileLock,          \* the FILE lock: "free", held by "sink" or "roller", or
                     \* "poisoned" (a thread panicked holding it)
  enqT,              \* history: the lines pushed to the terminal queue, in order
  enqF,              \* history: the lines pushed to the file queue, in order
  wroteF,            \* history: the lines the file sink handed to its writer
  nsets,             \* setter calls made so far
  nlogs,             \* dispatch calls made so far (the last message id)
  ndisk,             \* disk changes so far
  lineBytes,         \* the length in bytes of every rendered text of the run
  locking            \* per thread of the lock protocol: the lock operations
                     \* left in the function it runs and the locks it holds

vars == <<LOGGER, logger, TERMINAL_BUFFER, FILE_BUFFER, FILE, LOCKED, fileLines,
          stream, disk, stdout, build, slept, tail, queueLock, fmt, calls, cur, term, sink, roller,
          fileLock, enqT, enqF,
          wroteF, nsets, nlogs, ndisk, lineBytes, locking>>

\* ------------------------------------------------------------------ Logger
\* Logger::new(): the default configuration (no style is listed for Fatal,
\* whose declaration logger.rs does not show: it is given none, like None)
Logger_new ==
  [ path            |-> NoPath,
    terminal_output |-> TRUE,
    file_output     |-> FALSE,
    output_level    |-> Trace,
    ignore          |-> <<>>,
    file_ignore     |-> <<>>,
    terminal_ignore |-> <<>>,
    log_format      |-> "[{timestamp} {level} {module_path}] {message}",
    timezone        |-> "Local",
    timestamp_format |-> "%Y-%m-%d %H:%M:%S",
    file_rollover   |-> 0,
    styles          |-> [l \in Level |->
                           CASE l = Trace      -> <<"FGPurple">>
                             [] l = Debug      -> <<"FGBlue">>
                             [] l = Info       -> <<"FGGreen">>
                             [] l = Warning    -> <<"FGYellow">>
                             [] l = Error      -> <<"FGRed">>
                             [] l = Critical   -> <<"Bold", "FGRed">>
                             [] l = Diagnostic -> <<"Bold", "FGCyan">>
                             [] OTHER          -> <<>>] ]

\* Vec::contains
contains(list, x) == \E k \in 1..Len(list) : list[k] = x

\* Vec::retain(|s| *s != x)
RECURSIVE retain_ne(_, _)
retain_ne(list, x) ==
  IF list = <<>> THEN <<>>
  ELSE IF Head(list) = x THEN retain_ne(Tail(list), x)
       ELSE <<Head(list)>> \o retain_ne(Tail(list), x)

\* fault variants of the operators below: each changes one operator the way a
\* slip in the code would, and is used to show that a property depends on it
Filtered_ignore_only(l, cfg) == contains(cfg.ignore, l)
Filtered_level_only(l, cfg) == l < cfg.output_level
TerminalCond_shared(l, cfg) ==
  cfg.terminal_output /\ ~contains(cfg.terminal_ignore, l)
    /\ ~contains(cfg.file_ignore, l)
FileCond_no_path(l, cfg) == cfg.file_output /\ ~contains(cfg.file_ignore, l)
FileCond_no_enable(l, cfg) == ~contains(cfg.file_ignore, l) /\ cfg.path # NoPath
set_logger_keep_path(current, new_logger) ==
  [new_logger EXCEPT !.path = current.path]
set_logger_keep_level(current, new_logger) ==
  [new_logger EXCEPT !.output_level = current.output_level]

\* LOGGER.read().clone(): a copy of every field, taken under the read lock
clone(cfg) == cfg

\* Vec::push
push(buffer, line) == Append(buffer, line)

\* set_logger: the whole shared value is replaced by a clone of new_logger
set_logger(current, new_logger) == new_logger


\* no rendering of the format template is under way
NoRender == [pc |-> "none"]

\* no loop has slept yet
NoSleep == [term |-> "none", sink |-> "none", roller |-> "none"]

\* neither queue lock is held
NoLock == [T |-> "free", F |-> "free"]

\* ------------------------------------------------------------------ Init
\* the state after construction, with the Logger instances the program has
\* made with Logger::new()
Constructed(instances) ==
  /\ LOGGER = Logger_new
  /\ logger = [i \in instances |-> Logger_new]
  /\ TERMINAL_BUFFER = <<>>
  /\ FILE_BUFFER = <<>>
  /\ FILE = "none"
  /\ LOCKED = FALSE
  /\ fileLines = <<>>
  /\ stream = <<>>
  /\ disk = "ok"
  /\ stdout = "ok"
  /\ build = "debug"
  /\ slept = NoSleep
  /\ tail = <<>>
  /\ queueLock = NoLock
  /\ fmt = NoRender
  /\ calls = <<>>
  /\ cur = [c \in Callers |-> [pc |-> "idle", id |-> 0]]
  /\ term = [pc |-> "drain", writer |-> <<>>]
  /\ sink = [pc |-> "read", writer |-> <<>>, left |-> <<>>]
  /\ roller = [pc |-> "read", n |-> 0, logs |-> <<>>,
                left |-> <<>>, writer |-> <<>>]
  /\ fileLock = "free"
  /\ enqT = <<>>
  /\ enqF = <<>>
  /\ wroteF = <<>>
  /\ nsets = 0
  /\ nlogs = 0
  /\ ndisk = 0
  /\ lineBytes \in ShortLines
  /\ locking = "none"

\* one Logger instance, on which every setter of a behaviour is called
Init == Constructed(PipeLoggers)

\* ------------------------------------------------------------------ setters
\* what every setter leaves alone
SetterFrame ==
  UNCHANGED <<TERMINAL_BUFFER, FILE_BUFFER, LOCKED, fileLines, stream, disk,
              stdout, build, slept, tail, queueLock, fmt, calls, cur, term, sink, roller, fileLock, enqT,
              enqF, wroteF,
              nlogs, ndisk>>

\* self.<field> = value; set_logger(self)
Publish(i, new) ==
  /\ logger' = [logger EXCEPT ![i] = new]
  /\ LOGGER' = set_logger(LOGGER, new)

\* let logger = Logger::new();  (constructs a value, publishes nothing)
new(i) ==
  /\ logger[i] # Logger_new
  /\ logger' = [logger EXCEPT ![i] = Logger_new]
  /\ UNCHANGED <<LOGGER, FILE>>
  /\ SetterFrame

\* the handle FILE holds for a configured path: the file is opened or created
\* for read and append, and FILE holds no handle when that fails (output.rs
\* uses FILE, logger.rs does not show where it is stored: this follows the
\* specification)
OpenFile(p) == IF p = GoodPath THEN "open" ELSE "none"

\* the log file of the configured path is opened and its handle stored in
\* FILE under the FILE lock (logger.rs does not show this code: it follows
\* the specification, "created when a file path is configured")
open_file ==
  /\ fileLock = "free"
  /\ LOGGER.path # NoPath
  /\ FILE # OpenFile(LOGGER.path)
  /\ FILE' = OpenFile(LOGGER.path)
  /\ UNCHANGED <<LOGGER, logger>>
  /\ SetterFrame

\* Logger::path: self.path = Some(path); set_logger(self)
path(i, p) ==
  /\ Publish(i, [logger[i] EXCEPT !.path = p])
  /\ UNCHANGED FILE
  /\ SetterFrame

\* Logger::terminal
terminal(i, value) ==
  /\ Publish(i, [logger[i] EXCEPT !.terminal_output = value])
  /\ UNCHANGED FILE
  /\ SetterFrame

\* Logger::file
file(i, value) ==
  /\ Publish(i, [logger[i] EXCEPT !.file_output = value])
  /\ UNCHANGED FILE
  /\ SetterFrame

\* Logger::level
level(i, l) ==
  /\ Publish(i, [logger[i] EXCEPT !.output_level = l])
  /\ UNCHANGED FILE
  /\ SetterFrame

\* Logger::ignore
ignore(i, l) ==
  /\ Publish(i, [logger[i] EXCEPT !.ignore = Append(@, l)])
  /\ UNCHANGED FILE
  /\ SetterFrame

\* Logger::file_ignore
file_ignore(i, l) ==
  /\ Publish(i, [logger[i] EXCEPT !.file_ignore = Append(@, l)])
  /\ UNCHANGED FILE
  /\ SetterFrame

\* Logger::terminal_ignore
terminal_ignore(i, l) ==
  /\ Publish(i, [logger[i] EXCEPT !.terminal_ignore = Append(@, l)])
  /\ UNCHANGED FILE
  /\ SetterFrame

\* Logger::log_format
log_format(i, format) ==
  /\ Publish(i, [logger[i] EXCEPT !.log_format = format])
  /\ UNCHANGED FILE
  /\ SetterFrame

\* Logger::timezone
timezone(i, tz) ==
  /\ Publish(i, [logger[i] EXCEPT !.timezone = tz])
  /\ UNCHANGED FILE
  /\ SetterFrame

\* Logger::timestamp_format
timestamp_format(i, format) ==
  /\ Publish(i, [logger[i] EXCEPT !.timestamp_format = format])
  /\ UNCHANGED FILE
  /\ SetterFrame

\* logfather::logger::set_logger(&logger) called directly: the Logger value
\* is applied globally as it is
apply(i) ==
  /\ LOGGER' = set_logger(LOGGER, logger[i])
  /\ UNCHANGED <<logger, FILE>>
  /\ SetterFrame

\* fault variant of style: the styles are added to the level's list
style_append(i, l, style_set) ==
  /\ logger' = [logger EXCEPT ![i].styles[l] = @ \o style_set]
  /\ UNCHANGED <<LOGGER, FILE>>
  /\ SetterFrame

\* Logger::styles: a copy of the style list of a level
styles(self, l) == self.styles[l]

\* Logger::style: inserts into self.styles and returns; set_logger is not called
style(i, l, style_set) ==
  /\ logger' = [logger EXCEPT ![i].styles[l] = style_set]
  /\ UNCHANGED <<LOGGER, FILE>>
  /\ SetterFrame

\* Logger::add_style
add_style(i, l, s) ==
  /\ Publish(i, [logger[i] EXCEPT !.styles[l] = Append(@, s)])
  /\ UNCHANGED FILE
  /\ SetterFrame

\* fault variant of remove_style: a list left empty loses its entry
remove_style_entry(i, l, s) ==
  /\ LET kept == retain_ne(logger[i].styles[l], s)
         map == IF kept = <<>>
                THEN [k \in (DOMAIN logger[i].styles) \ {l} |->
                        logger[i].styles[k]]
                ELSE [logger[i].styles EXCEPT ![l] = kept]
     IN Publish(i, [logger[i] EXCEPT !.styles = map])
  /\ UNCHANGED FILE
  /\ SetterFrame

\* Logger::remove_style
remove_style(i, l, s) ==
  /\ Publish(i, [logger[i] EXCEPT !.styles[l] = retain_ne(@, s)])
  /\ UNCHANGED FILE
  /\ SetterFrame

\* the rollover threshold setter (output.rs reads logger.file_rollover; the
\* setter follows the specification: 0, the default, disables rollover)
file_rollover(i, n) ==
  /\ Publish(i, [logger[i] EXCEPT !.file_rollover = n])
  /\ UNCHANGED FILE
  /\ SetterFrame

\* one setter call on Logger i
Setter(i) ==
  \/ \E p \in PathArgs : path(i, p)
  \/ \E v \in BOOLEAN : terminal(i, v)
  \/ \E v \in BOOLEAN : file(i, v)
  \/ \E l \in {Error, None} : level(i, l)
  \/ \E l \in IgnoreArgs : ignore(i, l)
  \/ \E l \in IgnoreArgs : file_ignore(i, l)
  \/ \E l \in IgnoreArgs : terminal_ignore(i, l)
  \/ \E f \in {"{level} - {message}"} : log_format(i, f)
  \/ \E z \in {"Utc"} : timezone(i, z)
  \/ \E f \in {"%H"} : timestamp_format(i, f)
  \/ \E l \in StyleLevels, ss \in StyleSets : style(i, l, ss)
  \/ \E l \in StyleLevels, st \in StyleArgs : add_style(i, l, st)
  \/ \E l \in StyleLevels, st \in StyleArgs : remove_style(i, l, st)
  \/ \E n \in RolloverArgs : file_rollover(i, n)

\* ------------------------------------------------------------------ dispatch
\* impl Display for Level
to_string(l) ==
  CASE l = Trace      -> "TRACE"
    [] l = Debug      -> "DEBUG"
    [] l = Info       -> "INFO"
    [] l = Warning    -> "WARNING"
    [] l = Error      -> "ERROR"
    [] l = Critical   -> "CRITICAL"
    [] l = Fatal      -> "FATAL"
    [] l = Diagnostic -> "DIAGNOSTIC"
    [] OTHER          -> "NONE"

\* dekor::style(styles, level): the level label decorated with the styles
styled(list, l) == <<list, to_string(l)>>

\* `level < logger.output_level || logger.ignore.contains(&level)`
Filtered(l, cfg) == lt(l, cfg.output_level) \/ contains(cfg.ignore, l)

\* `logger.terminal_output && !logger.terminal_ignore.contains(&level)`
TerminalCond(l, cfg) == cfg.terminal_output /\ ~contains(cfg.terminal_ignore, l)

\* `logger.file_output && !logger.file_ignore.contains(&level) && logger.file_path.is_some()`
FileCond(l, cfg) ==
  cfg.file_output /\ ~contains(cfg.file_ignore, l) /\ cfg.path # NoPath

\* the line pushed to the terminal queue or printed: {level} is the styled label
TerminalLine(id, l, cfg) == [msg |-> id, level |-> styled(cfg.styles[l], l)]

\* the line pushed to the file queue or written: {level} is the plain label
FileLine(id, l) == [msg |-> id, level |-> to_string(l)]

\* create_dir_all(parent) and OpenOptions::open(path) succeed
Openable(p) == p = GoodPath

CallFrame ==
  UNCHANGED <<LOGGER, logger, FILE, LOCKED, disk, stdout, build, slept, tail, queueLock, fmt, term, sink,
              roller,
              fileLock, ndisk>>

\* where a call goes after its snapshot: the next access to shared state
AfterSnapshot(kind, l, cfg) ==
  IF Filtered(l, cfg) THEN "idle"
  ELSE IF kind = "result_log"
       THEN IF FileCond(l, cfg) THEN "rfile"
            ELSE IF TerminalCond(l, cfg) THEN "rterminal" ELSE "idle"
  ELSE IF kind = "logger::log"
       THEN IF FileCond(l, cfg) THEN "lfile"
            ELSE IF TerminalCond(l, cfg) THEN "lterminal" ELSE "idle"
       ELSE IF TerminalCond(l, cfg) THEN "terminal"
            ELSE IF FileCond(l, cfg) THEN "file" ELSE "idle"

\* log / structured_log / result_log, first statement: clone the shared
\* configuration under the read lock, then filter on the clone
start(c, kind, l) ==
  /\ cur[c].pc = "idle"
  /\ nlogs' = nlogs + 1
  /\ LET snap == clone(LOGGER)
         nxt == AfterSnapshot(kind, l, snap)
     IN /\ calls' = Append(calls, [by |-> c, kind |-> kind, level |-> l,
                                   snap |-> snap,
                                   res |-> IF nxt = "idle" THEN "ok"
                                           ELSE "running"])
        /\ cur' = [cur EXCEPT ![c] = [pc |-> nxt, id |-> nlogs + 1]]
  /\ UNCHANGED <<TERMINAL_BUFFER, FILE_BUFFER, fileLines, stream, enqT, enqF,
                 wroteF>>
  /\ CallFrame

\* fault variant of log_terminal: the push does not wait for the queue's lock
log_terminal_unlocked(c) ==
  /\ cur[c].pc = "terminal"
  /\ LET id == cur[c].id
         r == calls[id]
         nxt == IF FileCond(r.level, r.snap) THEN "file" ELSE "idle"
         line == TerminalLine(id, r.level, r.snap)
     IN /\ TERMINAL_BUFFER' = push(TERMINAL_BUFFER, line)
        /\ enqT' = Append(enqT, line)
        /\ calls' = [calls EXCEPT ![id].res = IF nxt = "idle" THEN "ok" ELSE @]
        /\ cur' = [cur EXCEPT ![c].pc = nxt]
  /\ UNCHANGED <<FILE_BUFFER, fileLines, stream, enqF, wroteF, nlogs>>
  /\ CallFrame

\* log / structured_log: TERMINAL_BUFFER.write().push(format)
log_terminal(c) ==
  /\ cur[c].pc = "terminal"
  /\ queueLock.T = "free"
  /\ LET id == cur[c].id
         r == calls[id]
         nxt == IF FileCond(r.level, r.snap) THEN "file" ELSE "idle"
         line == TerminalLine(id, r.level, r.snap)
     IN /\ TERMINAL_BUFFER' = push(TERMINAL_BUFFER, line)
        /\ enqT' = Append(enqT, line)
        /\ calls' = [calls EXCEPT ![id].res = IF nxt = "idle" THEN "ok" ELSE @]
        /\ cur' = [cur EXCEPT ![c].pc = nxt]
  /\ UNCHANGED <<FILE_BUFFER, fileLines, stream, enqF, wroteF, nlogs>>
  /\ CallFrame

\* fault variant of log_file: the call writes the line to the file itself
log_file_direct(c) ==
  /\ cur[c].pc = "file"
  /\ LET id == cur[c].id
         r == calls[id]
     IN /\ fileLines' = Append(fileLines, FileLine(id, r.level))
        /\ calls' = [calls EXCEPT ![id].res = "ok"]
        /\ cur' = [cur EXCEPT ![c].pc = "idle"]
  /\ UNCHANGED <<TERMINAL_BUFFER, FILE_BUFFER, stream, enqT, enqF, wroteF,
                 nlogs>>
  /\ CallFrame

\* log / structured_log: FILE_BUFFER.write().push(format)
log_file(c) ==
  /\ cur[c].pc = "file"
  /\ queueLock.F = "free"
  /\ LET id == cur[c].id
         r == calls[id]
         line == FileLine(id, r.level)
     IN /\ FILE_BUFFER' = push(FILE_BUFFER, line)
        /\ enqF' = Append(enqF, line)
        /\ calls' = [calls EXCEPT ![id].res = "ok"]
        /\ cur' = [cur EXCEPT ![c].pc = "idle"]
  /\ UNCHANGED <<TERMINAL_BUFFER, fileLines, stream, enqT, wroteF, nlogs>>
  /\ CallFrame

\* fault variant of result_terminal: the line goes to the terminal queue
result_terminal_queued(c) ==
  /\ cur[c].pc = "rterminal"
  /\ LET id == cur[c].id
         r == calls[id]
         line == TerminalLine(id, r.level, r.snap)
     IN /\ TERMINAL_BUFFER' = push(TERMINAL_BUFFER, line)
        /\ enqT' = Append(enqT, line)
        /\ calls' = [calls EXCEPT ![id].res = "ok"]
        /\ cur' = [cur EXCEPT ![c].pc = "idle"]
  /\ UNCHANGED <<FILE_BUFFER, fileLines, stream, enqF, wroteF, nlogs>>
  /\ CallFrame

\* result_log: println!("{}", format); return Ok(()).  println! panics when
\* the write to standard output fails
result_terminal(c) ==
  /\ cur[c].pc = "rterminal"
  /\ LET id == cur[c].id
         r == calls[id]
     IN /\ stream' = IF stdout = "ok"
                     THEN Append(stream, TerminalLine(id, r.level, r.snap))
                     ELSE stream
        /\ calls' = [calls EXCEPT
                       ![id].res = IF stdout = "ok" THEN "ok" ELSE "panic"]
        /\ cur' = [cur EXCEPT ![c].pc = "idle"]
  /\ UNCHANGED <<TERMINAL_BUFFER, FILE_BUFFER, fileLines, enqT, enqF, wroteF,
                 nlogs>>
  /\ CallFrame

\* result_log, step by step.  Every call opens the file for itself in append
\* mode and wraps its own handle in a Mutex made for this call alone, so the
\* lock excludes no other call.  writeln!(file, "{}", format) on the
\* unbuffered File is two writes: the rendered text, then the terminator.
ResultFrame ==
  UNCHANGED <<LOGGER, logger, TERMINAL_BUFFER, FILE_BUFFER, FILE, LOCKED,
              stream, disk, stdout, build, slept, queueLock, fmt, term, sink, roller,
              fileLock, enqT, enqF, wroteF, nlogs, ndisk>>

\* the line a terminator completes: the rendered line of one call when the
\* text since the last terminator is exactly that, else the texts found there
terminated(texts) ==
  IF Len(texts) = 1 THEN texts[1] ELSE [parts |-> texts]

\* the texts a line is made of
texts_of(line) == IF "parts" \in DOMAIN line THEN line.parts ELSE <<line>>

\* BufReader::lines(): every terminated line, then the text after the last
\* terminator when there is any
read_lines(lines, rest) ==
  lines \o (IF rest = <<>> THEN <<>> ELSE <<terminated(rest)>>)

\* result_log: create_dir_all(parent)?, OpenOptions .. .open(&path)?,
\* Mutex::new(file), file_mutex.lock()?
result_open(c) ==
  /\ cur[c].pc = "rfile"
  /\ LET id == cur[c].id
         r == calls[id]
     IN /\ calls' = [calls EXCEPT
                       ![id].res = IF Openable(r.snap.path) THEN @ ELSE "err"]
        /\ cur' = [cur EXCEPT
                     ![c].pc = IF Openable(r.snap.path) THEN "rtext" ELSE "idle"]
  /\ UNCHANGED <<fileLines, tail>>
  /\ ResultFrame

\* result_log: writeln!, first write: the rendered text is appended
result_write_text(c) ==
  /\ cur[c].pc = "rtext"
  /\ LET id == cur[c].id
         r == calls[id]
     IN /\ tail' = IF disk = "ok" THEN Append(tail, FileLine(id, r.level))
                   ELSE tail
        /\ calls' = [calls EXCEPT ![id].res = IF disk = "ok" THEN @ ELSE "err"]
        /\ cur' = [cur EXCEPT
                     ![c].pc = IF disk = "ok" THEN "rnewline" ELSE "idle"]
  /\ UNCHANGED fileLines
  /\ ResultFrame

\* result_log: writeln!, second write: the terminator is appended and ends
\* the line made of the text since the last terminator
result_write_newline(c) ==
  /\ cur[c].pc = "rnewline"
  /\ LET id == cur[c].id
         r == calls[id]
         nxt == IF disk = "ok" /\ TerminalCond(r.level, r.snap)
                THEN "rterminal" ELSE "idle"
     IN /\ fileLines' = IF disk = "ok"
                        THEN Append(fileLines, terminated(tail))
                        ELSE fileLines
        /\ tail' = IF disk = "ok" THEN <<>> ELSE tail
        /\ calls' = [calls EXCEPT
                       ![id].res = IF disk # "ok" THEN "err"
                                   ELSE IF nxt = "idle" THEN "ok" ELSE @]
        /\ cur' = [cur EXCEPT ![c].pc = nxt]
  /\ ResultFrame

\* File::create succeeds on the path: its directory can be made and the file
\* can be opened for writing
Creatable(p) == p \in {GoodPath, WriteOnlyPath}

\* logger::log (the synchronous log of logger.rs), file branch, step by step:
\* create_dir_all(parent).expect(..), which panics when the directory cannot
\* be made; the open for reading and appending and, when it fails,
\* File::create(path).expect(..), which empties the file and panics when the
\* file cannot be created either; Mutex::new(file), lock().unwrap()
logger_log_open(c) ==
  /\ cur[c].pc = "lfile"
  /\ LET id == cur[c].id
         r == calls[id]
         truncates == ~Openable(r.snap.path) /\ Creatable(r.snap.path)
     IN /\ calls' = [calls EXCEPT
                       ![id].res = IF Creatable(r.snap.path) THEN @ ELSE "panic"]
        /\ cur' = [cur EXCEPT
                     ![c].pc = IF Creatable(r.snap.path) THEN "ltext" ELSE "idle"]
        /\ fileLines' = IF truncates THEN <<>> ELSE fileLines
        /\ tail' = IF truncates THEN <<>> ELSE tail
  /\ ResultFrame

\* logger::log: `_ = writeln!(file, ..)`, first write: the rendered text is
\* appended; an error ends the writeln! and is discarded
logger_log_write_text(c) ==
  /\ cur[c].pc = "ltext"
  /\ LET id == cur[c].id
         r == calls[id]
         nxt == IF disk = "ok" THEN "lnewline"
                ELSE IF TerminalCond(r.level, r.snap) THEN "lterminal"
                ELSE "idle"
     IN /\ tail' = IF disk = "ok" THEN Append(tail, FileLine(id, r.level))
                   ELSE tail
        /\ calls' = [calls EXCEPT ![id].res = IF nxt = "idle" THEN "ok" ELSE @]
        /\ cur' = [cur EXCEPT ![c].pc = nxt]
  /\ UNCHANGED fileLines
  /\ ResultFrame

\* logger::log: writeln!, second write: the terminator is appended and ends
\* the line made of the text since the last terminator
logger_log_write_newline(c) ==
  /\ cur[c].pc = "lnewline"
  /\ LET id == cur[c].id
         r == calls[id]
         nxt == IF TerminalCond(r.level, r.snap) THEN "lterminal" ELSE "idle"
     IN /\ fileLines' = IF disk = "ok"
                        THEN Append(fileLines, terminated(tail))
                        ELSE fileLines
        /\ tail' = IF disk = "ok" THEN <<>> ELSE tail
        /\ calls' = [calls EXCEPT ![id].res = IF nxt = "idle" THEN "ok" ELSE @]
        /\ cur' = [cur EXCEPT ![c].pc = nxt]
  /\ ResultFrame

\* logger::log, terminal branch: println!("{}", format)
logger_log_terminal(c) ==
  /\ cur[c].pc = "lterminal"
  /\ LET id == cur[c].id
         r == calls[id]
     IN /\ stream' = IF stdout = "ok"
                     THEN Append(stream, TerminalLine(id, r.level, r.snap))
                     ELSE stream
        /\ calls' = [calls EXCEPT
                       ![id].res = IF stdout = "ok" THEN "ok" ELSE "panic"]
        /\ cur' = [cur EXCEPT ![c].pc = "idle"]
  /\ UNCHANGED <<TERMINAL_BUFFER, FILE_BUFFER, fileLines, enqT, enqF, wroteF,
                 nlogs>>
  /\ CallFrame

\* ------------------------------------------------------------------ format
\* Text is a sequence of characters.  The placeholders of the format template:
P_timestamp == <<"{", "t", "i", "m", "e", "s", "t", "a", "m", "p", "}">>
P_module_path ==
  <<"{", "m", "o", "d", "u", "l", "e", "_", "p", "a", "t", "h", "}">>
P_message == <<"{", "m", "e", "s", "s", "a", "g", "e", "}">>
P_level == <<"{", "l", "e", "v", "e", "l", "}">>

\* str::replace(from, to): every non-overlapping occurrence of from, found
\* left to right, is replaced by to; the inserted text is not searched again
RECURSIVE replace(_, _, _)
replace(text, from, to) ==
  IF Len(text) < Len(from) THEN text
  ELSE IF SubSeq(text, 1, Len(from)) = from
       THEN to \o replace(SubSeq(text, Len(from) + 1, Len(text)), from, to)
       ELSE <<Head(text)>> \o replace(Tail(text), from, to)

\* impl Display for Level, as characters
label(l) ==
  CASE l = Trace      -> <<"T", "R", "A", "C", "E">>
    [] l = Debug      -> <<"D", "E", "B", "U", "G">>
    [] l = Info       -> <<"I", "N", "F", "O">>
    [] l = Warning    -> <<"W", "A", "R", "N", "I", "N", "G">>
    [] l = Error      -> <<"E", "R", "R", "O", "R">>
    [] l = Critical   -> <<"C", "R", "I", "T", "I", "C", "A", "L">>
    [] l = Fatal      -> <<"F", "A", "T", "A", "L">>
    [] l = Diagnostic ->
         <<"D", "I", "A", "G", "N", "O", "S", "T", "I", "C">>
    [] OTHER          -> <<"N", "O", "N", "E">>

\* dekor::style(styles, level): the label between the styles' escape codes
\* (one element per style) and the reset code
style_text(list, l) == list \o label(l) \o <<"reset">>

\* the inputs of one rendering
Templates ==
  { <<"[">> \o P_timestamp \o <<" ">> \o P_level \o <<" ">> \o P_module_path
      \o <<"]", " ">> \o P_message,
    P_level \o <<" ", "-", " ">> \o P_message,
    P_message \o <<"|">> \o P_message \o P_level \o P_level,
    <<"{", "u", "s", "e", "r", "}">> \o <<" ">> \o P_message,
    <<"{">> \o P_level \o <<"}">> }
Messages ==
  { <<"T", "e", "s", "t", " ", "m", "e", "s", "s", "a", "g", "e">>, <<>>,
    P_level, <<"a">> \o P_timestamp }
CallSites == { <<"a", "p", "p", ":", ":", "d", "b">>, P_message }

\* the orders in which a HashMap of these keys can be iterated
Orders(keys) ==
  {o \in [1..Cardinality(keys) -> keys] :
     \A i, j \in 1..Cardinality(keys) : i # j => o[i] # o[j]}

\* the value of a placeholder key in a rendering; lvl is the text for {level}
Value(key, f, lvl) ==
  CASE key = "timestamp"   -> f.time
    [] key = "module_path" -> f.module_path
    [] key = "message"     -> f.message
    [] OTHER               -> lvl

Placeholder(key) ==
  CASE key = "timestamp"   -> P_timestamp
    [] key = "module_path" -> P_module_path
    [] key = "message"     -> P_message
    [] OTHER               -> P_level

\* log_format.replace(..) for each key of order in turn
RECURSIVE replace_all(_, _, _, _)
replace_all(text, order, f, lvl) ==
  IF order = <<>> THEN text
  ELSE replace_all(replace(text, Placeholder(Head(order)),
                           Value(Head(order), f, lvl)),
                   Tail(order), f, lvl)

FormatFrame ==
  UNCHANGED <<LOGGER, logger, TERMINAL_BUFFER, FILE_BUFFER, FILE, LOCKED,
              fileLines, stream, disk, stdout, build, slept, tail, queueLock, calls, cur, term, sink,
              roller, fileLock, enqT, enqF, wroteF, nsets, nlogs, ndisk,
              lineBytes, locking>>

\* log / result_log: the template with {timestamp}, {module_path}, {message}
\* replaced in that order, then {level} replaced by the styled label for the
\* terminal and by the plain label for the file
render(kind) ==
  /\ fmt.pc = "input"
  /\ LET partial ==
           replace_all(fmt.template, <<"timestamp", "module_path", "message">>,
                       fmt, <<>>)
     IN fmt' = [fmt EXCEPT
                  !.pc = "done", !.kind = kind,
                  !.terminal = replace(partial, P_level,
                                       style_text(LOGGER.styles[fmt.level],
                                                  fmt.level)),
                  !.file = replace(partial, P_level, label(fmt.level))]
  /\ FormatFrame

\* structured_log with an empty map: the three placeholders are replaced in
\* the iteration order of a HashMap, {level} is replaced for the terminal, and
\* for the file all four placeholders are replaced again in the iteration
\* order of the HashMap
render_structured ==
  /\ fmt.pc = "input"
  /\ \E first \in Orders({"timestamp", "module_path", "message"}),
        second \in Orders({"timestamp", "module_path", "message", "level"}) :
       LET partial == replace_all(fmt.template, first, fmt, <<>>)
       IN fmt' = [fmt EXCEPT
                    !.pc = "done", !.kind = "structured_log",
                    !.terminal = replace(partial, P_level,
                                         style_text(LOGGER.styles[fmt.level],
                                                    fmt.level)),
                    !.file = replace_all(partial, second, fmt,
                                         label(fmt.level))]
  /\ FormatFrame

\* ------------------------------------------------------------------ macros
\* The builds are debug (with debug_assertions) and release (without).
\* The macros documented as debug-build only, and the forms of invocation:
\* plain (format arguments), map (a map; format arguments) and keyvalue
\* (key = value pairs; format arguments).  The structured arms of the r_
\* macros are commented out, so those take the plain form only.
DebugOnlyMacros ==
  {"debug", "r_debug", "diagnostic", "diag", "r_diagnostic", "r_diag"}
Invocations ==
  {inv \in [name : DebugOnlyMacros, form : {"plain", "map", "keyvalue"}] :
     inv.name \in {"r_debug", "r_diagnostic", "r_diag"} => inv.form = "plain"}

\* what an invocation expands to in a build: the dispatch function called and
\* its level, or kind "none" when the arm compiles to nothing or to Ok(())
Expansion(name, form, b) ==
  CASE name = "debug" ->
         IF form \in {"map", "keyvalue"}
         THEN [kind |-> "structured_log", level |-> Debug]
         ELSE IF b = "debug" THEN [kind |-> "log", level |-> Debug]
              ELSE [kind |-> "none", level |-> Debug]
    [] name = "r_debug" ->
         IF b = "debug" THEN [kind |-> "result_log", level |-> Debug]
         ELSE [kind |-> "none", level |-> Debug]
    [] name \in {"diagnostic", "diag"} ->
         IF b = "debug"
         THEN [kind |-> IF form = "plain" THEN "log" ELSE "structured_log",
               level |-> Diagnostic]
         ELSE [kind |-> "none", level |-> Diagnostic]
    [] OTHER ->
         IF b = "debug" THEN [kind |-> "result_log", level |-> Diagnostic]
         ELSE [kind |-> "none", level |-> Diagnostic]

\* one macro invocation: the call it expands to starts, or nothing happens
\* (the r_ macros then evaluate to Ok(()))
invoke(c, name, form) ==
  LET e == Expansion(name, form, build)
  IN IF e.kind # "none" THEN start(c, e.kind, e.level)
     ELSE /\ cur[c].pc = "idle"
          /\ nlogs' = nlogs + 1
          /\ calls' = Append(calls, [by |-> c, kind |-> "none",
                                     level |-> e.level, res |-> "ok"])
          /\ UNCHANGED <<cur, TERMINAL_BUFFER, FILE_BUFFER, fileLines, stream,
                         enqT, enqF, wroteF>>
          /\ CallFrame

\* ------------------------------------------------------------------ BufWriter
\* The sink loops and the rollover write through a std::io::BufWriter.  What
\* one write_all call is given is a chunk: the text of one line, or the
\* terminator writeln! writes after it.  A writer is [buf, out, err]: the
\* chunks in its buffer, the chunks it has written to its target, and whether
\* the last call returned an error.
\*
\* BufWriter::new: the capacity of the buffer in bytes
BufCapacity == 8192

\* the line terminator
NL == [nl |-> TRUE]

\* the length of a chunk in bytes: a terminator is one byte, a line is as long
\* as the texts it is made of
bytes(chunk) ==
  IF "nl" \in DOMAIN chunk THEN 1 ELSE Len(texts_of(chunk)) * lineBytes

\* the number of bytes in the buffer
RECURSIVE filled(_)
filled(buf) == IF buf = <<>> THEN 0 ELSE bytes(Head(buf)) + filled(Tail(buf))

\* the chunks for_each(writeln!) writes for a list of lines
RECURSIVE chunks(_)
chunks(lines) ==
  IF lines = <<>> THEN <<>> ELSE <<Head(lines), NL>> \o chunks(Tail(lines))

\* the lines whose text is among the chunks
RECURSIVE lines_of(_)
lines_of(list) ==
  IF list = <<>> THEN <<>>
  ELSE IF "nl" \in DOMAIN Head(list) THEN lines_of(Tail(list))
       ELSE <<Head(list)>> \o lines_of(Tail(list))

\* a write of chunks at the end of the file f = [lines, rest]: a text lands
\* right after the text the file ends with, a terminator completes the text
\* since the last terminator as one line
RECURSIVE write_chunks(_, _)
write_chunks(f, list) ==
  IF list = <<>> THEN f
  ELSE write_chunks(IF "nl" \in DOMAIN Head(list)
                    THEN [lines |-> Append(f.lines, terminated(f.rest)),
                          rest |-> <<>>]
                    ELSE [lines |-> f.lines,
                          rest |-> f.rest \o texts_of(Head(list))],
                    Tail(list))

\* one call after another: next applied to the value of first
Then(first, next(_)) == CHOOSE r \in {next(v) : v \in {first}} : TRUE

\* BufWriter::flush_buf: the buffer is written to the target in one write; when
\* the write fails the buffer keeps its content and the error is returned
flush_buf(w, working) ==
  IF w.buf = <<>> THEN w
  ELSE IF working THEN [w EXCEPT !.out = @ \o w.buf, !.buf = <<>>]
  ELSE [w EXCEPT !.err = TRUE]

\* BufWriter::write_all(chunk): a chunk shorter than the room left is copied
\* into the buffer; otherwise the buffer is flushed first when the chunk is
\* longer than the room left, and then a chunk as long as the capacity or
\* longer is written to the target directly, a shorter one copied into the
\* buffer.  An error of either write is returned at once.
buf_write_all(w, chunk, working) ==
  IF bytes(chunk) < BufCapacity - filled(w.buf)
  THEN [w EXCEPT !.buf = Append(@, chunk)]
  ELSE Then(IF bytes(chunk) > BufCapacity - filled(w.buf)
            THEN flush_buf(w, working) ELSE w,
            LAMBDA f :
              IF f.err THEN f
              ELSE IF bytes(chunk) >= BufCapacity
              THEN IF working THEN [f EXCEPT !.out = Append(@, chunk)]
                   ELSE [f EXCEPT !.err = TRUE]
              ELSE [f EXCEPT !.buf = Append(@, chunk)])

\* writeln!(writer, "{}", line): write_all of the text, then of the
\* terminator; an error ends the writeln! (the terminator is not written
\* after a text that failed)
writeln(w, line, working) ==
  Then(buf_write_all([w EXCEPT !.err = FALSE], line, working),
       LAMBDA t : IF t.err THEN t ELSE buf_write_all(t, NL, working))

\* fault variant of write_all: the lines are written back to front
RECURSIVE write_all_reversed(_, _, _)
write_all_reversed(w, lines, working) ==
  IF lines = <<>> THEN w
  ELSE Then(writeln(w, lines[Len(lines)], working),
            LAMBDA next :
              write_all_reversed(next, SubSeq(lines, 1, Len(lines) - 1),
                                 working))

\* buffer.iter().for_each(|line| _ = writeln!(writer, "{}", line)): the queued
\* lines go to the writer front to back, the error of a writeln! is discarded
RECURSIVE write_all(_, _, _)
write_all(w, lines, working) ==
  IF lines = <<>> THEN w
  ELSE Then(writeln(w, Head(lines), working),
            LAMBDA next : write_all(next, Tail(lines), working))

\* a writer with the buffer buf that has written nothing yet
writer_of(buf) == [buf |-> buf, out |-> <<>>, err |-> FALSE]

\* for_each(writeln!) one write at a time, left being the chunks still to
\* write: when the buffer holds something and the next chunk is longer than
\* the room left the buffer is flushed, in a write of its own, and the chunk
\* stays; else write_all of the chunk.  After an error the writeln! is over:
\* the chunk and the terminator of its line are dropped.
write_call(buf, left, working) ==
  LET c == Head(left)
      flushing == buf # <<>> /\ bytes(c) > BufCapacity - filled(buf)
  IN Then(IF flushing THEN flush_buf(writer_of(buf), working)
          ELSE buf_write_all(writer_of(buf), c, working),
          LAMBDA w :
            [buf |-> w.buf, out |-> w.out,
             left |-> IF w.err
                      THEN IF "nl" \in DOMAIN c THEN Tail(left)
                           ELSE Tail(Tail(left))
                      ELSE IF flushing THEN left ELSE Tail(left)])

\* ------------------------------------------------------------------ loops
\* The stream is the list of the lines whose text has been written to it: the
\* terminal sink's BufWriter hands a line's text and its terminator on in one
\* write as long as the text is shorter than BufCapacity, which is the case
\* for every length drawn where the terminal sink runs.
LoopFrame ==
  UNCHANGED <<LOGGER, logger, FILE, disk, stdout, build, queueLock, fmt,
              calls, cur, enqT, enqF, nlogs, ndisk>>

\* fault variant of terminal_drain: the terminal sink waits for a file handle
terminal_drain_needs_file ==
  /\ term.pc = "drain"
  /\ FILE # "none"
  /\ \E w \in {write_all(writer_of(term.writer), TERMINAL_BUFFER, stdout = "ok")} :
        /\ stream' = stream \o lines_of(w.out)
        /\ term' = [pc |-> "flush", writer |-> w.buf]
  /\ TERMINAL_BUFFER' = <<>>
  /\ UNCHANGED <<FILE_BUFFER, LOCKED, fileLines, sink, roller, fileLock,
                 wroteF>>
  /\ LoopFrame
  /\ slept' = [slept EXCEPT !.term = "none"]
  /\ UNCHANGED tail

\* terminal_output, one cycle up to the end of the queue lock's scope:
\* every queued line goes to the writer, then the queue is cleared
terminal_drain ==
  /\ term.pc = "drain"
  /\ \E w \in {write_all(writer_of(term.writer), TERMINAL_BUFFER, stdout = "ok")} :
        /\ stream' = stream \o lines_of(w.out)
        /\ term' = [pc |-> "flush", writer |-> w.buf]
  /\ TERMINAL_BUFFER' = <<>>
  /\ UNCHANGED <<FILE_BUFFER, LOCKED, fileLines, sink, roller, fileLock,
                 wroteF>>
  /\ LoopFrame
  /\ slept' = [slept EXCEPT !.term = "none"]
  /\ UNCHANGED tail

\* terminal_output: writer.flush() (its error is discarded; the writer, made
\* once before the loop, keeps the lines a failed flush could not write);
\* sleep(logger.terminal_buffer_interval)
terminal_flush ==
  /\ term.pc = "flush"
  /\ \E w \in {flush_buf(writer_of(term.writer), stdout = "ok")} :
        /\ stream' = stream \o lines_of(w.out)
        /\ term' = [pc |-> "drain", writer |-> w.buf]
  /\ UNCHANGED <<TERMINAL_BUFFER, FILE_BUFFER, LOCKED, fileLines, sink, roller,
                 fileLock,
                 wroteF>>
  /\ LoopFrame
  /\ slept' = [slept EXCEPT !.term = "terminal_buffer_interval"]
  /\ UNCHANGED tail

\* file_output: clone the configuration; idle when file output is off or no
\* path is set: sleep(logger.file_buffer_interval)
file_read ==
  /\ sink.pc = "read"
  /\ sink' = [sink EXCEPT !.pc = IF ~LOGGER.file_output \/ LOGGER.path = NoPath
                                 THEN "read" ELSE "lock"]
  /\ UNCHANGED <<TERMINAL_BUFFER, FILE_BUFFER, LOCKED, fileLines, stream, term,
                 roller, fileLock,
                 wroteF>>
  /\ LoopFrame
  /\ slept' = [slept EXCEPT !.sink = IF sink'.pc = "read"
                          THEN "file_buffer_interval" ELSE "none"]
  /\ UNCHANGED tail

\* file_output: FILE.write().expect(..), which panics on a poisoned lock; with
\* no handle the guard is held over the sleep; seek(End(0)).unwrap(), which
\* panics with the guard held when the handle cannot seek and so poisons FILE
file_lock ==
  /\ sink.pc = "lock"
  /\ fileLock \in {"free", "poisoned"}
  /\ fileLock' = IF fileLock = "poisoned" \/ FILE = "pipe" THEN "poisoned"
                 ELSE "sink"
  /\ sink' = [sink EXCEPT !.pc = IF fileLock = "poisoned" \/ FILE = "pipe"
                                 THEN "panicked"
                                 ELSE IF FILE = "none" THEN "sleep"
                                 ELSE "drain"]
  /\ UNCHANGED <<TERMINAL_BUFFER, FILE_BUFFER, LOCKED, fileLines, stream, term,
                 roller,
                 wroteF>>
  /\ LoopFrame
  /\ slept' = [slept EXCEPT !.sink = IF sink'.pc = "sleep"
                          THEN "file_buffer_interval" ELSE @]
  /\ UNCHANGED tail

\* file_output: the sleep with no handle ends, `continue` drops the guard
file_wake ==
  /\ sink.pc = "sleep"
  /\ fileLock' = "free"
  /\ sink' = [sink EXCEPT !.pc = "read"]
  /\ UNCHANGED <<TERMINAL_BUFFER, FILE_BUFFER, LOCKED, fileLines, stream, term,
                 roller,
                 wroteF>>
  /\ LoopFrame
  /\ UNCHANGED slept
  /\ UNCHANGED tail

\* file_output: BufWriter::new; under the queue lock every queued line goes to
\* the writer, which writes to the file what does not fit, then the queue is
\* cleared
file_drain ==
  /\ sink.pc = "drain"
  /\ \E w \in {write_all(writer_of(<<>>), FILE_BUFFER, disk = "ok")} :
     \E f \in {write_chunks([lines |-> fileLines, rest |-> tail], w.out)} :
        /\ fileLines' = f.lines
        /\ tail' = f.rest
        /\ sink' = [sink EXCEPT !.pc = "flush", !.writer = w.buf]
  /\ wroteF' = wroteF \o FILE_BUFFER
  /\ FILE_BUFFER' = <<>>
  /\ UNCHANGED <<TERMINAL_BUFFER, LOCKED, stream, term, roller, fileLock>>
  /\ LoopFrame
  /\ UNCHANGED slept

\* file_output: writer.flush() (its error is discarded); the scope ends: the
\* BufWriter is dropped with what a failed flush left in it, then the FILE
\* guard; sleep(logger.terminal_buffer_interval)
file_flush ==
  /\ sink.pc = "flush"
  /\ \E w \in {flush_buf(writer_of(sink.writer), disk = "ok")} :
     \E f \in {write_chunks([lines |-> fileLines, rest |-> tail], w.out)} :
        /\ fileLines' = f.lines
        /\ tail' = f.rest
  /\ sink' = [pc |-> "read", writer |-> <<>>, left |-> <<>>]
  /\ fileLock' = "free"
  /\ UNCHANGED <<TERMINAL_BUFFER, FILE_BUFFER, LOCKED, stream, term, roller,
                 wroteF>>
  /\ LoopFrame
  /\ slept' = [slept EXCEPT !.sink = "terminal_buffer_interval"]

\* The sink loops with the queue locks as steps of their own: the lock is
\* taken, the queued lines go to the BufWriter and the queue is cleared with
\* the lock held, the lock's scope ends, and the writer is flushed.
LockedLoopFrame ==
  UNCHANGED <<LOGGER, logger, FILE, disk, stdout, build, fmt, calls, cur,
              enqT, enqF, nlogs, ndisk>>

\* terminal_output: TERMINAL_BUFFER.write()
terminal_lock ==
  /\ term.pc = "drain"
  /\ queueLock.T = "free"
  /\ queueLock' = [queueLock EXCEPT !.T = "term"]
  /\ term' = [term EXCEPT !.pc = "write"]
  /\ UNCHANGED <<TERMINAL_BUFFER, FILE_BUFFER, LOCKED, fileLines, stream, sink,
                 roller, fileLock, wroteF>>
  /\ LockedLoopFrame
  /\ slept' = [slept EXCEPT !.term = "none"]
  /\ UNCHANGED tail

\* terminal_output: for_each writeln!(writer, line); clear(); end of the
\* lock's scope
terminal_write ==
  /\ term.pc = "write"
  /\ \E w \in {write_all(writer_of(term.writer), TERMINAL_BUFFER, stdout = "ok")} :
        /\ stream' = stream \o lines_of(w.out)
        /\ term' = [pc |-> "flush", writer |-> w.buf]
  /\ TERMINAL_BUFFER' = <<>>
  /\ queueLock' = [queueLock EXCEPT !.T = "free"]
  /\ UNCHANGED <<FILE_BUFFER, LOCKED, fileLines, sink, roller, fileLock,
                 wroteF>>
  /\ LockedLoopFrame
  /\ UNCHANGED slept
  /\ UNCHANGED tail

\* file_output: BufWriter::new; FILE_BUFFER.write(): the for_each has the
\* queued lines to write
file_queue_lock ==
  /\ sink.pc = "drain"
  /\ queueLock.F = "free"
  /\ queueLock' = [queueLock EXCEPT !.F = "sink"]
  /\ sink' = [pc |-> "write", writer |-> <<>>, left |-> chunks(FILE_BUFFER)]
  /\ UNCHANGED <<TERMINAL_BUFFER, FILE_BUFFER, LOCKED, fileLines, stream, term,
                 roller, fileLock, wroteF>>
  /\ LockedLoopFrame
  /\ UNCHANGED slept
  /\ UNCHANGED tail

\* fault variant of file_write: the queue lock's scope does not end before
\* the flush
file_write_keeps_lock ==
  /\ sink.pc = "write"
  /\ \E w \in {write_all(writer_of(<<>>), FILE_BUFFER, disk = "ok")} :
     \E f \in {write_chunks([lines |-> fileLines, rest |-> tail], w.out)} :
        /\ fileLines' = f.lines
        /\ tail' = f.rest
        /\ sink' = [pc |-> "flush", writer |-> w.buf, left |-> <<>>]
  /\ wroteF' = wroteF \o FILE_BUFFER
  /\ FILE_BUFFER' = <<>>
  /\ UNCHANGED <<TERMINAL_BUFFER, LOCKED, stream, term, roller, fileLock,
                 queueLock>>
  /\ LockedLoopFrame
  /\ UNCHANGED slept

\* file_output: for_each writeln!(writer, line); clear(); end of the queue
\* lock's scope (the FILE guard stays)
file_write ==
  /\ sink.pc = "write"
  /\ \E w \in {write_all(writer_of(<<>>), FILE_BUFFER, disk = "ok")} :
     \E f \in {write_chunks([lines |-> fileLines, rest |-> tail], w.out)} :
        /\ fileLines' = f.lines
        /\ tail' = f.rest
        /\ sink' = [pc |-> "flush", writer |-> w.buf, left |-> <<>>]
  /\ wroteF' = wroteF \o FILE_BUFFER
  /\ FILE_BUFFER' = <<>>
  /\ queueLock' = [queueLock EXCEPT !.F = "free"]
  /\ UNCHANGED <<TERMINAL_BUFFER, LOCKED, stream, term, roller, fileLock>>
  /\ LockedLoopFrame
  /\ UNCHANGED slept

\* The drain of a sink loop statement by statement, the queue lock held
\* throughout: for_each writeln!, then clear() and the end of the scope.
\*
\* terminal_output: terminal_buffer.iter().for_each(writeln!(writer, line))
terminal_writeln ==
  /\ term.pc = "write"
  /\ \E w \in {write_all(writer_of(term.writer), TERMINAL_BUFFER, stdout = "ok")} :
        /\ stream' = stream \o lines_of(w.out)
        /\ term' = [pc |-> "clear", writer |-> w.buf]
  /\ UNCHANGED <<TERMINAL_BUFFER, FILE_BUFFER, LOCKED, fileLines, sink, roller,
                 fileLock, wroteF, queueLock, slept>>
  /\ LockedLoopFrame
  /\ UNCHANGED tail

\* terminal_output: terminal_buffer.clear(); the lock's scope ends
terminal_clear ==
  /\ term.pc = "clear"
  /\ TERMINAL_BUFFER' = <<>>
  /\ queueLock' = [queueLock EXCEPT !.T = "free"]
  /\ term' = [term EXCEPT !.pc = "flush"]
  /\ UNCHANGED <<FILE_BUFFER, LOCKED, fileLines, stream, sink, roller,
                 fileLock, wroteF, slept>>
  /\ LockedLoopFrame
  /\ UNCHANGED tail

\* file_output: file_buffer.iter().for_each(writeln!(writer, line)), one write
\* of the BufWriter at a time (the errors are discarded)
file_writeln ==
  /\ sink.pc = "write"
  /\ sink.left # <<>>
  /\ \E w \in {write_call(sink.writer, sink.left, disk = "ok")} :
     \E f \in {write_chunks([lines |-> fileLines, rest |-> tail], w.out)} :
        /\ fileLines' = f.lines
        /\ tail' = f.rest
        /\ sink' = [sink EXCEPT !.writer = w.buf, !.left = w.left]
        /\ wroteF' = wroteF \o lines_of(SubSeq(sink.left, 1,
                                               Len(sink.left) - Len(w.left)))
  /\ UNCHANGED <<TERMINAL_BUFFER, FILE_BUFFER, LOCKED, stream, term, roller,
                 fileLock, queueLock, slept>>
  /\ LockedLoopFrame

\* file_output: file_buffer.clear(); the queue lock's scope ends
file_clear ==
  /\ sink.pc = "write"
  /\ sink.left = <<>>
  /\ FILE_BUFFER' = <<>>
  /\ queueLock' = [queueLock EXCEPT !.F = "free"]
  /\ sink' = [sink EXCEPT !.pc = "flush"]
  /\ UNCHANGED <<TERMINAL_BUFFER, LOCKED, fileLines, stream, term, roller,
                 fileLock, wroteF, slept>>
  /\ LockedLoopFrame
  /\ UNCHANGED tail

\* fault variant of split_off: the first n lines are kept
split_off_first(logs, n) == SubSeq(logs, 1, n)

\* Vec::split_off(len - n): the last n lines
split_off(logs, n) == SubSeq(logs, Len(logs) - n + 1, Len(logs))

\* file_roller: clone the configuration; idle when file output is off, no path
\* is set or the threshold is 0: sleep(logger.file_buffer_interval)
roller_read ==
  /\ roller.pc = "read"
  /\ roller' = IF ~LOGGER.file_output \/ LOGGER.path = NoPath
                  \/ LOGGER.file_rollover = 0
               THEN roller
               ELSE [roller EXCEPT !.pc = "lock", !.n = LOGGER.file_rollover]
  /\ UNCHANGED <<TERMINAL_BUFFER, FILE_BUFFER, LOCKED, fileLines, stream, term,
                 sink, fileLock,
                 wroteF>>
  /\ LoopFrame
  /\ slept' = [slept EXCEPT !.roller = IF roller'.pc = "read"
                          THEN "file_buffer_interval" ELSE "none"]
  /\ UNCHANGED tail

\* fault variant of roller_lock: the rollover does not wait for the FILE lock
roller_lock_unguarded ==
  /\ roller.pc = "lock"
  /\ fileLock' = "roller"
  /\ LET logs == read_lines(fileLines, tail)
     IN roller' = IF FILE = "none" \/ Len(logs) <= roller.n
                  THEN [roller EXCEPT !.pc = "sleep"]
                  ELSE [roller EXCEPT !.pc = "flag", !.logs = logs]
  /\ UNCHANGED <<TERMINAL_BUFFER, FILE_BUFFER, LOCKED, fileLines, stream, term,
                 sink, wroteF, tail>>
  /\ LoopFrame
  /\ slept' = [slept EXCEPT !.roller = IF roller'.pc = "sleep"
                          THEN "file_buffer_interval" ELSE @]

\* file_roller: FILE.write().expect(..), which panics on a poisoned lock;
\* seek(Start(0)).unwrap(), which panics with the guard held when the handle
\* cannot seek and so poisons FILE; read the file's lines, compare their
\* number with the threshold; on both idle paths the guard is held over the
\* sleep
roller_lock ==
  /\ roller.pc = "lock"
  /\ fileLock \in {"free", "poisoned"}
  /\ fileLock' = IF fileLock = "poisoned" \/ FILE = "pipe" THEN "poisoned"
                 ELSE "roller"
  /\ LET logs == read_lines(fileLines, tail)
     IN roller' = IF fileLock = "poisoned" \/ FILE = "pipe"
                  THEN [roller EXCEPT !.pc = "panicked"]
                  ELSE IF FILE = "none" \/ Len(logs) <= roller.n
                  THEN [roller EXCEPT !.pc = "sleep"]
                  ELSE [roller EXCEPT !.pc = "flag", !.logs = logs]
  /\ UNCHANGED <<TERMINAL_BUFFER, FILE_BUFFER, LOCKED, fileLines, stream, term,
                 sink, wroteF, tail>>
  /\ LoopFrame
  /\ slept' = [slept EXCEPT !.roller = IF roller'.pc = "sleep"
                          THEN "file_buffer_interval" ELSE @]

\* file_roller: the sleep of an idle path ends, `continue` drops the guard
roller_wake ==
  /\ roller.pc = "sleep"
  /\ fileLock' = "free"
  /\ roller' = [pc |-> "read", n |-> 0, logs |-> <<>>,
                left |-> <<>>, writer |-> <<>>]
  /\ UNCHANGED <<TERMINAL_BUFFER, FILE_BUFFER, LOCKED, fileLines, stream, term,
                 sink, wroteF, tail, slept>>
  /\ LoopFrame

\* file_roller: *LOCKED.write() = true, in a scope of its own
roller_set_locked ==
  /\ roller.pc = "flag"
  /\ LOCKED' = TRUE
  /\ roller' = [roller EXCEPT !.pc = "truncate"]
  /\ UNCHANGED <<TERMINAL_BUFFER, FILE_BUFFER, fileLines, stream, term, sink,
                 fileLock, wroteF, tail, slept>>
  /\ LoopFrame

\* file_roller: set_len(0) (its error is discarded); seek(Start(0)); split_off
\* the last n lines; BufWriter::new: the for_each has the kept lines to write
roller_truncate ==
  /\ roller.pc = "truncate"
  /\ fileLines' = IF disk = "ok" THEN <<>> ELSE fileLines
  /\ tail' = IF disk = "ok" THEN <<>> ELSE tail
  /\ roller' = [roller EXCEPT !.pc = "rewrite",
                              !.left = chunks(split_off(roller.logs, roller.n)),
                              !.writer = <<>>]
  /\ UNCHANGED <<TERMINAL_BUFFER, FILE_BUFFER, LOCKED, stream, term, sink,
                 fileLock, wroteF, slept>>
  /\ LoopFrame

\* file_roller: logs.into_iter().for_each(writeln!(writer, line)), one write of
\* the BufWriter at a time (the errors are discarded)
roller_rewrite ==
  /\ roller.pc = "rewrite"
  /\ roller.left # <<>>
  /\ \E w \in {write_call(roller.writer, roller.left, disk = "ok")} :
     \E f \in {write_chunks([lines |-> fileLines, rest |-> tail], w.out)} :
        /\ fileLines' = f.lines
        /\ tail' = f.rest
        /\ roller' = [roller EXCEPT !.left = w.left, !.writer = w.buf]
  /\ UNCHANGED <<TERMINAL_BUFFER, FILE_BUFFER, LOCKED, stream, term, sink,
                 fileLock, wroteF, slept>>
  /\ LoopFrame

\* file_roller: writer.flush() (its error is discarded; the BufWriter keeps
\* what a failed flush could not write)
roller_flush ==
  /\ roller.pc = "rewrite"
  /\ roller.left = <<>>
  /\ \E w \in {flush_buf(writer_of(roller.writer), disk = "ok")} :
     \E f \in {write_chunks([lines |-> fileLines, rest |-> tail], w.out)} :
        /\ fileLines' = f.lines
        /\ tail' = f.rest
        /\ roller' = [roller EXCEPT !.pc = "unflag", !.writer = w.buf]
  /\ UNCHANGED <<TERMINAL_BUFFER, FILE_BUFFER, LOCKED, stream, term, sink,
                 fileLock, wroteF, slept>>
  /\ LoopFrame

\* fault variant of roller_clear_locked: the flag is not set back
roller_clear_locked_keeps_flag ==
  /\ roller.pc = "unflag"
  /\ roller' = [roller EXCEPT !.pc = "unlock"]
  /\ UNCHANGED <<TERMINAL_BUFFER, FILE_BUFFER, LOCKED, fileLines, stream, term,
                 sink, fileLock, wroteF, tail, slept>>
  /\ LoopFrame

\* file_roller: *LOCKED.write() = false, in a scope of its own
roller_clear_locked ==
  /\ roller.pc = "unflag"
  /\ LOCKED' = FALSE
  /\ roller' = [roller EXCEPT !.pc = "unlock"]
  /\ UNCHANGED <<TERMINAL_BUFFER, FILE_BUFFER, fileLines, stream, term, sink,
                 fileLock, wroteF, tail, slept>>
  /\ LoopFrame

\* file_roller: the scope ends: the BufWriter is dropped, which writes what a
\* failed flush left in it, then the FILE guard;
\* sleep(logger.terminal_buffer_interval)
roller_unlock ==
  /\ roller.pc = "unlock"
  /\ \E w \in {flush_buf(writer_of(roller.writer), disk = "ok")} :
     \E f \in {write_chunks([lines |-> fileLines, rest |-> tail], w.out)} :
        /\ fileLines' = f.lines
        /\ tail' = f.rest
  /\ fileLock' = "free"
  /\ roller' = [pc |-> "read", n |-> 0, logs |-> <<>>,
                left |-> <<>>, writer |-> <<>>]
  /\ UNCHANGED <<TERMINAL_BUFFER, FILE_BUFFER, LOCKED, stream, term, sink,
                 wroteF>>
  /\ LoopFrame
  /\ slept' = [slept EXCEPT !.roller = "terminal_buffer_interval"]

\* the file system starts or stops failing writes
disk_change ==
  /\ ndisk < MaxDisk
  /\ ndisk' = ndisk + 1
  /\ disk' = IF disk = "ok" THEN "fail" ELSE "ok"
  /\ UNCHANGED <<LOGGER, logger, TERMINAL_BUFFER, FILE_BUFFER, FILE, LOCKED,
                 fileLines, stream, stdout, build, slept, tail, queueLock, fmt, calls, cur, term, sink,
                 roller, fileLock,
                 enqT, enqF, wroteF, nlogs>>

\* ------------------------------------------------------------------ Spec
\* The pipeline: two callers logging while one Logger configures the file
\* sink and the three loops run.  Either caller calls log; result_log is
\* called by the first caller (the callers are interchangeable, and two
\* result_log calls at once are what SpecAppend is about).  The configuration
\* space here is finite, so setter calls are not counted.
PipeLevels == {Info}

Dispatch ==
  \/ \E c \in Callers : log_terminal(c)
  \/ \E c \in Callers : log_file(c)
  \/ \E c \in Callers : result_open(c)
  \/ \E c \in Callers : result_write_text(c)
  \/ \E c \in Callers : result_write_newline(c)
  \/ \E c \in Callers : result_terminal(c)

Next ==
  \/ ( \/ \E i \in PipeLoggers, p \in {GoodPath} : path(i, p)
       \/ \E i \in PipeLoggers, v \in BOOLEAN : file(i, v)
       \/ \E i \in PipeLoggers, n \in RolloverArgs : file_rollover(i, n)
       \/ open_file ) /\ UNCHANGED <<nsets, lineBytes, locking>>
  \/ ( \/ \E c \in Callers, l \in PipeLevels : start(c, "log", l)
       \/ \E c \in OneCaller, l \in PipeLevels : start(c, "result_log", l) )
       /\ nlogs < MaxLogs /\ UNCHANGED <<nsets, lineBytes, locking>>
  \/ Dispatch /\ UNCHANGED <<nsets, lineBytes, locking>>
  \/ terminal_drain /\ UNCHANGED <<nsets, lineBytes, locking>>
  \/ terminal_flush /\ UNCHANGED <<nsets, lineBytes, locking>>
  \/ file_read /\ UNCHANGED <<nsets, lineBytes, locking>>
  \/ file_lock /\ UNCHANGED <<nsets, lineBytes, locking>>
  \/ file_wake /\ UNCHANGED <<nsets, lineBytes, locking>>
  \/ file_drain /\ UNCHANGED <<nsets, lineBytes, locking>>
  \/ file_flush /\ UNCHANGED <<nsets, lineBytes, locking>>
  \/ roller_read /\ UNCHANGED <<nsets, lineBytes, locking>>
  \/ roller_lock /\ UNCHANGED <<nsets, lineBytes, locking>>
  \/ roller_wake /\ UNCHANGED <<nsets, lineBytes, locking>>
  \/ roller_set_locked /\ UNCHANGED <<nsets, lineBytes, locking>>
  \/ roller_truncate /\ UNCHANGED <<nsets, lineBytes, locking>>
  \/ roller_rewrite /\ UNCHANGED <<nsets, lineBytes, locking>>
  \/ roller_flush /\ UNCHANGED <<nsets, lineBytes, locking>>
  \/ roller_clear_locked /\ UNCHANGED <<nsets, lineBytes, locking>>
  \/ roller_unlock /\ UNCHANGED <<nsets, lineBytes, locking>>

Spec == Init /\ [][Next]_vars

\* ------------------------------------------------------------------ FairSpec
\* The file side under fair scheduling: one caller logging, the file sink and
\* the rollover loop, with paths that cannot be opened and a disk that can
\* fail.  Every loop step is weakly fair (the threads keep running), the
\* acquisition of the FILE lock included: std::sync::RwLock promises no order
\* among the threads that wait for it, so a loop gets the lock for certain
\* only when the lock stays free until it does.

NextFair ==
  \/ ( \/ \E i \in PipeLoggers, p \in PathArgs : path(i, p)
       \/ \E i \in PipeLoggers, v \in BOOLEAN : file(i, v)
       \/ \E i \in PipeLoggers, n \in RolloverArgs : file_rollover(i, n)
       \/ open_file ) /\ UNCHANGED <<nsets, lineBytes, locking>>
  \/ (\E c \in OneCaller, l \in PipeLevels : start(c, "log", l))
       /\ nlogs < MaxFairLogs /\ UNCHANGED <<nsets, lineBytes, locking>>
  \/ (\E c \in OneCaller : log_terminal(c)) /\ UNCHANGED <<nsets, lineBytes, locking>>
  \/ (\E c \in OneCaller : log_file(c)) /\ UNCHANGED <<nsets, lineBytes, locking>>
  \/ file_read /\ UNCHANGED <<nsets, lineBytes, locking>>
  \/ file_lock /\ UNCHANGED <<nsets, lineBytes, locking>>
  \/ file_wake /\ UNCHANGED <<nsets, lineBytes, locking>>
  \/ file_drain /\ UNCHANGED <<nsets, lineBytes, locking>>
  \/ file_flush /\ UNCHANGED <<nsets, lineBytes, locking>>
  \/ roller_read /\ UNCHANGED <<nsets, lineBytes, locking>>
  \/ roller_lock /\ UNCHANGED <<nsets, lineBytes, locking>>
  \/ roller_wake /\ UNCHANGED <<nsets, lineBytes, locking>>
  \/ roller_set_locked /\ UNCHANGED <<nsets, lineBytes, locking>>
  \/ roller_truncate /\ UNCHANGED <<nsets, lineBytes, locking>>
  \/ roller_rewrite /\ UNCHANGED <<nsets, lineBytes, locking>>
  \/ roller_flush /\ UNCHANGED <<nsets, lineBytes, locking>>
  \/ roller_clear_locked /\ UNCHANGED <<nsets, lineBytes, locking>>
  \/ roller_unlock /\ UNCHANGED <<nsets, lineBytes, locking>>
  \/ disk_change /\ UNCHANGED <<nsets, lineBytes, locking>>

Fairness ==
  /\ WF_vars(open_file /\ UNCHANGED <<nsets, lineBytes, locking>>)
  /\ WF_vars(file_read /\ UNCHANGED <<nsets, lineBytes, locking>>)
  /\ WF_vars(file_lock /\ UNCHANGED <<nsets, lineBytes, locking>>)
  /\ WF_vars(file_wake /\ UNCHANGED <<nsets, lineBytes, locking>>)
  /\ WF_vars(file_drain /\ UNCHANGED <<nsets, lineBytes, locking>>)
  /\ WF_vars(file_flush /\ UNCHANGED <<nsets, lineBytes, locking>>)
  /\ WF_vars(roller_read /\ UNCHANGED <<nsets, lineBytes, locking>>)
  /\ WF_vars(roller_lock /\ UNCHANGED <<nsets, lineBytes, locking>>)
  /\ WF_vars(roller_wake /\ UNCHANGED <<nsets, lineBytes, locking>>)
  /\ WF_vars(roller_set_locked /\ UNCHANGED <<nsets, lineBytes, locking>>)
  /\ WF_vars(roller_truncate /\ UNCHANGED <<nsets, lineBytes, locking>>)
  /\ WF_vars(roller_rewrite /\ UNCHANGED <<nsets, lineBytes, locking>>)
  /\ WF_vars(roller_flush /\ UNCHANGED <<nsets, lineBytes, locking>>)
  /\ WF_vars(roller_clear_locked /\ UNCHANGED <<nsets, lineBytes, locking>>)
  /\ WF_vars(roller_unlock /\ UNCHANGED <<nsets, lineBytes, locking>>)

FairSpec == Init /\ [][NextFair]_vars /\ Fairness

\* ------------------------------------------------------------------ TerminalFairSpec
\* Both sinks under fair scheduling: one caller logging while a Logger sets
\* paths that can and cannot be opened and switches file output; the terminal
\* sink loop and the file sink loop run.  A call runs to its end (its steps
\* are weakly fair) and so does every loop step, the acquisition of the FILE
\* lock included.
NextTerminalFair ==
  \/ ( \/ \E i \in PipeLoggers, p \in PathArgs : path(i, p)
       \/ \E i \in PipeLoggers, v \in BOOLEAN : file(i, v)
       \/ open_file ) /\ UNCHANGED <<nsets, lineBytes, locking>>
  \/ (\E c \in OneCaller, l \in PipeLevels : start(c, "log", l))
       /\ nlogs < MaxFairLogs /\ UNCHANGED <<nsets, lineBytes, locking>>
  \/ (\E c \in OneCaller : log_terminal(c)) /\ UNCHANGED <<nsets, lineBytes, locking>>
  \/ (\E c \in OneCaller : log_file(c)) /\ UNCHANGED <<nsets, lineBytes, locking>>
  \/ terminal_drain /\ UNCHANGED <<nsets, lineBytes, locking>>
  \/ terminal_flush /\ UNCHANGED <<nsets, lineBytes, locking>>
  \/ file_read /\ UNCHANGED <<nsets, lineBytes, locking>>
  \/ file_lock /\ UNCHANGED <<nsets, lineBytes, locking>>
  \/ file_wake /\ UNCHANGED <<nsets, lineBytes, locking>>
  \/ file_drain /\ UNCHANGED <<nsets, lineBytes, locking>>
  \/ file_flush /\ UNCHANGED <<nsets, lineBytes, locking>>

TerminalFairness ==
  /\ WF_vars(open_file /\ UNCHANGED <<nsets, lineBytes, locking>>)
  /\ WF_vars((\E c \in OneCaller : log_terminal(c)) /\ UNCHANGED <<nsets, lineBytes, locking>>)
  /\ WF_vars((\E c \in OneCaller : log_file(c)) /\ UNCHANGED <<nsets, lineBytes, locking>>)
  /\ WF_vars(terminal_drain /\ UNCHANGED <<nsets, lineBytes, locking>>)
  /\ WF_vars(terminal_flush /\ UNCHANGED <<nsets, lineBytes, locking>>)
  /\ WF_vars(file_read /\ UNCHANGED <<nsets, lineBytes, locking>>)
  /\ WF_vars(file_lock /\ UNCHANGED <<nsets, lineBytes, locking>>)
  /\ WF_vars(file_wake /\ UNCHANGED <<nsets, lineBytes, locking>>)
  /\ WF_vars(file_drain /\ UNCHANGED <<nsets, lineBytes, locking>>)
  /\ WF_vars(file_flush /\ UNCHANGED <<nsets, lineBytes, locking>>)

TerminalFairSpec == Init /\ [][NextTerminalFair]_vars /\ TerminalFairness

\* ------------------------------------------------------------------ SpecConfig
\* The configuration alone: Logger values are constructed and every setter is
\* called on them, at most MaxSets setter calls in a behaviour.
NextConfig ==
  \/ (\E i \in Loggers : new(i)) /\ UNCHANGED <<nsets, lineBytes, locking>>
  \/ (\E i \in Loggers : Setter(i)) /\ nsets < MaxSets /\ nsets' = nsets + 1
       /\ UNCHANGED <<lineBytes, locking>>
  \/ (\E i \in Loggers : apply(i)) /\ nsets < MaxSets /\ nsets' = nsets + 1
       /\ UNCHANGED <<lineBytes, locking>>

SpecConfig == Constructed(Loggers) /\ [][NextConfig]_vars

\* ------------------------------------------------------------------ SpecDispatch
\* Dispatch alone: one caller makes log, structured_log and result_log calls at
\* every level against a configuration that earlier setter calls on Logger "a"
\* have published.  Every configuration of DispatchConfigs is reached from
\* Logger::new() by path, terminal, file, level, ignore, file_ignore and
\* terminal_ignore calls.

DispatchConfigs ==
  { [Logger_new EXCEPT !.path = p, !.terminal_output = t, !.file_output = f,
                       !.output_level = m, !.ignore = ig, !.file_ignore = fi,
                       !.terminal_ignore = ti] :
      p \in {NoPath} \cup PathArgs, t \in BOOLEAN, f \in BOOLEAN, m \in Level,
      ig \in {<<>>, <<Error>>}, fi \in {<<>>, <<Error>>}, ti \in {<<>>, <<Error>>} }

InitDispatch ==
  /\ LOGGER \in DispatchConfigs
  /\ logger = [i \in Loggers |-> IF i = "a" THEN LOGGER ELSE Logger_new]
  /\ FILE = (IF LOGGER.path = NoPath THEN "none" ELSE OpenFile(LOGGER.path))
  /\ TERMINAL_BUFFER = <<>>
  /\ FILE_BUFFER = <<>>
  /\ LOCKED = FALSE
  /\ fileLines = <<>>
  /\ stream = <<>>
  /\ disk = "ok"
  /\ stdout = "ok"
  /\ build = "debug"
  /\ slept = NoSleep
  /\ tail = <<>>
  /\ queueLock = NoLock
  /\ fmt = NoRender
  /\ calls = <<>>
  /\ cur = [c \in Callers |-> [pc |-> "idle", id |-> 0]]
  /\ term = [pc |-> "drain", writer |-> <<>>]
  /\ sink = [pc |-> "read", writer |-> <<>>, left |-> <<>>]
  /\ roller = [pc |-> "read", n |-> 0, logs |-> <<>>,
                left |-> <<>>, writer |-> <<>>]
  /\ fileLock = "free"
  /\ enqT = <<>>
  /\ enqF = <<>>
  /\ wroteF = <<>>
  /\ nsets = 0
  /\ nlogs = 0
  /\ ndisk = 0
  /\ lineBytes \in ShortLines
  /\ locking = "none"

NextDispatch ==
  \/ (\E c \in OneCaller, k \in {"log", "structured_log", "result_log"}, l \in Level : start(c, k, l))
       /\ nlogs < MaxCalls /\ UNCHANGED <<nsets, lineBytes, locking>>
  \/ (\E c \in OneCaller : log_terminal(c)) /\ UNCHANGED <<nsets, lineBytes, locking>>
  \/ (\E c \in OneCaller : log_file(c)) /\ UNCHANGED <<nsets, lineBytes, locking>>
  \/ (\E c \in OneCaller : result_open(c)) /\ UNCHANGED <<nsets, lineBytes, locking>>
  \/ (\E c \in OneCaller : result_write_text(c)) /\ UNCHANGED <<nsets, lineBytes, locking>>
  \/ (\E c \in OneCaller : result_write_newline(c)) /\ UNCHANGED <<nsets, lineBytes, locking>>
  \/ (\E c \in OneCaller : result_terminal(c)) /\ UNCHANGED <<nsets, lineBytes, locking>>

SpecDispatch == InitDispatch /\ [][NextDispatch]_vars

\* ------------------------------------------------------------------ SpecRoll
\* The rollover on a file that already holds lines: the log file is opened in
\* append mode, so a process starts with the lines earlier runs left in it.
\* Logger "a" has called terminal(false), path, file(true) and file_rollover(n);
\* one caller logs while the file sink and the rollover loop run, both writing
\* through their BufWriter one write at a time.  The disk works.

\* the k-th line an earlier run wrote
OldLine(k) == [msg |-> 0 - k, level |-> to_string(Info)]
OldLines(k) == [j \in 1..k |-> OldLine(j)]

InitRoll ==
  /\ \E n \in 1..MaxThreshold :
       LOGGER = [Logger_new EXCEPT !.path = GoodPath, !.terminal_output = FALSE,
                                   !.file_output = TRUE, !.file_rollover = n]
  /\ logger = [i \in Loggers |-> IF i = "a" THEN LOGGER ELSE Logger_new]
  /\ FILE = OpenFile(GoodPath)
  /\ \E k \in 0..MaxFileLines : fileLines = OldLines(k)
  /\ TERMINAL_BUFFER = <<>>
  /\ FILE_BUFFER = <<>>
  /\ LOCKED = FALSE
  /\ stream = <<>>
  /\ disk = "ok"
  /\ stdout = "ok"
  /\ build = "debug"
  /\ slept = NoSleep
  /\ tail = <<>>
  /\ queueLock = NoLock
  /\ fmt = NoRender
  /\ calls = <<>>
  /\ cur = [c \in Callers |-> [pc |-> "idle", id |-> 0]]
  /\ term = [pc |-> "drain", writer |-> <<>>]
  /\ sink = [pc |-> "read", writer |-> <<>>, left |-> <<>>]
  /\ roller = [pc |-> "read", n |-> 0, logs |-> <<>>,
                left |-> <<>>, writer |-> <<>>]
  /\ fileLock = "free"
  /\ enqT = <<>>
  /\ enqF = <<>>
  /\ wroteF = <<>>
  /\ nsets = 0
  /\ nlogs = 0
  /\ ndisk = 0
  /\ lineBytes \in LineSizes
  /\ locking = "none"

NextRoll ==
  \/ (\E c \in OneCaller, l \in PipeLevels : start(c, "log", l))
       /\ nlogs < MaxRollLogs /\ UNCHANGED <<nsets, lineBytes, locking>>
  \/ (\E c \in OneCaller : log_file(c)) /\ UNCHANGED <<nsets, lineBytes, locking>>
  \/ file_read /\ UNCHANGED <<nsets, lineBytes, locking>>
  \/ file_lock /\ UNCHANGED <<nsets, lineBytes, locking>>
  \/ file_queue_lock /\ UNCHANGED <<nsets, lineBytes, locking>>
  \/ file_writeln /\ UNCHANGED <<nsets, lineBytes, locking>>
  \/ file_clear /\ UNCHANGED <<nsets, lineBytes, locking>>
  \/ file_flush /\ UNCHANGED <<nsets, lineBytes, locking>>
  \/ roller_read /\ UNCHANGED <<nsets, lineBytes, locking>>
  \/ roller_lock /\ UNCHANGED <<nsets, lineBytes, locking>>
  \/ roller_wake /\ UNCHANGED <<nsets, lineBytes, locking>>
  \/ roller_set_locked /\ UNCHANGED <<nsets, lineBytes, locking>>
  \/ roller_truncate /\ UNCHANGED <<nsets, lineBytes, locking>>
  \/ roller_rewrite /\ UNCHANGED <<nsets, lineBytes, locking>>
  \/ roller_flush /\ UNCHANGED <<nsets, lineBytes, locking>>
  \/ roller_clear_locked /\ UNCHANGED <<nsets, lineBytes, locking>>
  \/ roller_unlock /\ UNCHANGED <<nsets, lineBytes, locking>>

SpecRoll == InitRoll /\ [][NextRoll]_vars

\* ------------------------------------------------------------------ SpecSync
\* The synchronous path in a failing environment: one caller makes result_log
\* and logger::log calls at every level against a published configuration, on
\* a disk that works or fails and a standard output that works or is broken
\* (a closed pipe, a full device), with a file that is new or holds a line of
\* an earlier run, and that can be opened, can be opened for writing only, or
\* lies in a directory that cannot be made.

InitSync ==
  /\ LOGGER \in DispatchConfigs
                \cup { [cfg EXCEPT !.path = WriteOnlyPath] :
                         cfg \in {d \in DispatchConfigs : d.path = GoodPath} }
  /\ logger = [i \in Loggers |-> IF i = "a" THEN LOGGER ELSE Logger_new]
  /\ FILE = (IF LOGGER.path = NoPath THEN "none" ELSE OpenFile(LOGGER.path))
  /\ \E e \in [disk : {"ok", "fail"}, stdout : {"ok", "broken"}] : disk = e.disk /\ stdout = e.stdout
  /\ build = "debug"
  /\ slept = NoSleep
  /\ tail = <<>>
  /\ queueLock = NoLock
  /\ fmt = NoRender
  /\ TERMINAL_BUFFER = <<>>
  /\ FILE_BUFFER = <<>>
  /\ LOCKED = FALSE
  /\ \E k \in 0..1 : fileLines = OldLines(k)
  /\ stream = <<>>
  /\ calls = <<>>
  /\ cur = [c \in Callers |-> [pc |-> "idle", id |-> 0]]
  /\ term = [pc |-> "drain", writer |-> <<>>]
  /\ sink = [pc |-> "read", writer |-> <<>>, left |-> <<>>]
  /\ roller = [pc |-> "read", n |-> 0, logs |-> <<>>,
                left |-> <<>>, writer |-> <<>>]
  /\ fileLock = "free"
  /\ enqT = <<>>
  /\ enqF = <<>>
  /\ wroteF = <<>>
  /\ nsets = 0
  /\ nlogs = 0
  /\ ndisk = 0
  /\ lineBytes \in ShortLines
  /\ locking = "none"

NextSync ==
  \/ (\E c \in OneCaller, k \in {"result_log", "logger::log"}, l \in Level :
        start(c, k, l))
       /\ nlogs < MaxCalls /\ UNCHANGED <<nsets, lineBytes, locking>>
  \/ (\E c \in OneCaller : result_open(c)) /\ UNCHANGED <<nsets, lineBytes, locking>>
  \/ (\E c \in OneCaller : result_write_text(c)) /\ UNCHANGED <<nsets, lineBytes, locking>>
  \/ (\E c \in OneCaller : result_write_newline(c)) /\ UNCHANGED <<nsets, lineBytes, locking>>
  \/ (\E c \in OneCaller : result_terminal(c)) /\ UNCHANGED <<nsets, lineBytes, locking>>
  \/ (\E c \in OneCaller : logger_log_open(c)) /\ UNCHANGED <<nsets, lineBytes, locking>>
  \/ (\E c \in OneCaller : logger_log_write_text(c)) /\ UNCHANGED <<nsets, lineBytes, locking>>
  \/ (\E c \in OneCaller : logger_log_write_newline(c)) /\ UNCHANGED <<nsets, lineBytes, locking>>
  \/ (\E c \in OneCaller : logger_log_terminal(c)) /\ UNCHANGED <<nsets, lineBytes, locking>>

SpecSync == InitSync /\ [][NextSync]_vars

\* ------------------------------------------------------------------ SpecMacro
\* The debug-only macros in both builds: one caller invokes them in every
\* form against a configuration that path, terminal, file and level calls
\* have published.

InitMacro ==
  /\ \E p \in {NoPath, GoodPath}, t \in BOOLEAN, f \in BOOLEAN,
        m \in {Trace, Info, Diagnostic} :
       LOGGER = [Logger_new EXCEPT !.path = p, !.terminal_output = t,
                                   !.file_output = f, !.output_level = m]
  /\ logger = [i \in Loggers |-> IF i = "a" THEN LOGGER ELSE Logger_new]
  /\ FILE = (IF LOGGER.path = NoPath THEN "none" ELSE OpenFile(LOGGER.path))
  /\ build \in {"debug", "release"}
  /\ slept = NoSleep
  /\ tail = <<>>
  /\ queueLock = NoLock
  /\ fmt = NoRender
  /\ TERMINAL_BUFFER = <<>>
  /\ FILE_BUFFER = <<>>
  /\ LOCKED = FALSE
  /\ fileLines = <<>>
  /\ stream = <<>>
  /\ disk = "ok"
  /\ stdout = "ok"
  /\ calls = <<>>
  /\ cur = [c \in Callers |-> [pc |-> "idle", id |-> 0]]
  /\ term = [pc |-> "drain", writer |-> <<>>]
  /\ sink = [pc |-> "read", writer |-> <<>>, left |-> <<>>]
  /\ roller = [pc |-> "read", n |-> 0, logs |-> <<>>,
                left |-> <<>>, writer |-> <<>>]
  /\ fileLock = "free"
  /\ enqT = <<>>
  /\ enqF = <<>>
  /\ wroteF = <<>>
  /\ nsets = 0
  /\ nlogs = 0
  /\ ndisk = 0
  /\ lineBytes \in ShortLines
  /\ locking = "none"

NextMacro ==
  \/ (\E c \in OneCaller, inv \in Invocations :
        invoke(c, inv.name, inv.form))
       /\ nlogs < MaxCalls /\ UNCHANGED <<nsets, lineBytes, locking>>
  \/ (\E c \in OneCaller : log_terminal(c)) /\ UNCHANGED <<nsets, lineBytes, locking>>
  \/ (\E c \in OneCaller : log_file(c)) /\ UNCHANGED <<nsets, lineBytes, locking>>
  \/ (\E c \in OneCaller : result_open(c)) /\ UNCHANGED <<nsets, lineBytes, locking>>
  \/ (\E c \in OneCaller : result_write_text(c)) /\ UNCHANGED <<nsets, lineBytes, locking>>
  \/ (\E c \in OneCaller : result_write_newline(c)) /\ UNCHANGED <<nsets, lineBytes, locking>>
  \/ (\E c \in OneCaller : result_terminal(c)) /\ UNCHANGED <<nsets, lineBytes, locking>>

SpecMacro == InitMacro /\ [][NextMacro]_vars

\* ------------------------------------------------------------------ SpecFormat
\* Rendering alone: one line is rendered from a template, a timestamp, a call
\* site, a message and a level under the default styles.
InitFormat ==
  /\ LOGGER = Logger_new
  /\ logger = [i \in Loggers |-> Logger_new]
  /\ FILE = "none"
  /\ build = "debug"
  /\ slept = NoSleep
  /\ tail = <<>>
  /\ queueLock = NoLock
  /\ fmt \in [pc : {"input"}, kind : {"none"}, template : Templates,
              time : {<<"1", "2", ":", "0", "0">>}, module_path : CallSites, message : Messages,
              level : {Info, Error}, terminal : {<<>>}, file : {<<>>}]
  /\ TERMINAL_BUFFER = <<>>
  /\ FILE_BUFFER = <<>>
  /\ LOCKED = FALSE
  /\ fileLines = <<>>
  /\ stream = <<>>
  /\ disk = "ok"
  /\ stdout = "ok"
  /\ calls = <<>>
  /\ cur = [c \in Callers |-> [pc |-> "idle", id |-> 0]]
  /\ term = [pc |-> "drain", writer |-> <<>>]
  /\ sink = [pc |-> "read", writer |-> <<>>, left |-> <<>>]
  /\ roller = [pc |-> "read", n |-> 0, logs |-> <<>>,
                left |-> <<>>, writer |-> <<>>]
  /\ fileLock = "free"
  /\ enqT = <<>>
  /\ enqF = <<>>
  /\ wroteF = <<>>
  /\ nsets = 0
  /\ nlogs = 0
  /\ ndisk = 0
  /\ lineBytes \in ShortLines
  /\ locking = "none"

NextFormat ==
  \/ \E kind \in {"log", "result_log"} : render(kind)
  \/ render_structured

SpecFormat == InitFormat /\ [][NextFormat]_vars

\* ------------------------------------------------------------------ SpecAppend
\* Two threads calling result_log against one published configuration, each
\* call's two writes to the log file taken as separate steps.

InitAppend ==
  /\ \E p \in PathArgs, t \in BOOLEAN, f \in BOOLEAN :
       LOGGER = [Logger_new EXCEPT !.path = p, !.terminal_output = t,
                                   !.file_output = f]
  /\ logger = [i \in Loggers |-> IF i = "a" THEN LOGGER ELSE Logger_new]
  /\ FILE = OpenFile(LOGGER.path)
  /\ disk = "ok"
  /\ stdout = "ok"
  /\ build = "debug"
  /\ slept = NoSleep
  /\ tail = <<>>
  /\ queueLock = NoLock
  /\ fmt = NoRender
  /\ TERMINAL_BUFFER = <<>>
  /\ FILE_BUFFER = <<>>
  /\ LOCKED = FALSE
  /\ fileLines = <<>>
  /\ stream = <<>>
  /\ calls = <<>>
  /\ cur = [c \in Callers |-> [pc |-> "idle", id |-> 0]]
  /\ term = [pc |-> "drain", writer |-> <<>>]
  /\ sink = [pc |-> "read", writer |-> <<>>, left |-> <<>>]
  /\ roller = [pc |-> "read", n |-> 0, logs |-> <<>>,
                left |-> <<>>, writer |-> <<>>]
  /\ fileLock = "free"
  /\ enqT = <<>>
  /\ enqF = <<>>
  /\ wroteF = <<>>
  /\ nsets = 0
  /\ nlogs = 0
  /\ ndisk = 0
  /\ lineBytes \in ShortLines
  /\ locking = "none"

NextAppend ==
  \/ (\E c \in Callers, l \in {Info, Error} : start(c, "result_log", l))
       /\ nlogs < MaxLogs /\ UNCHANGED <<nsets, lineBytes, locking>>
  \/ (\E c \in Callers : result_open(c)) /\ UNCHANGED <<nsets, lineBytes, locking>>
  \/ (\E c \in Callers : result_write_text(c)) /\ UNCHANGED <<nsets, lineBytes, locking>>
  \/ (\E c \in Callers : result_write_newline(c)) /\ UNCHANGED <<nsets, lineBytes, locking>>
  \/ (\E c \in Callers : result_terminal(c)) /\ UNCHANGED <<nsets, lineBytes, locking>>
  \/ disk_change /\ UNCHANGED <<nsets, lineBytes, locking>>

SpecAppend == InitAppend /\ [][NextAppend]_vars

\* ------------------------------------------------------------------ SpecLocks
\* The three loops with their locks: two callers log against a published
\* configuration while the terminal sink, the file sink and the rollover loop
\* run, the sink loops taking and releasing their queue locks step by step.
InitLocks ==
  /\ \E t \in BOOLEAN, f \in BOOLEAN, n \in {0} \cup RolloverArgs :
       LOGGER = [Logger_new EXCEPT !.path = GoodPath, !.terminal_output = t,
                                   !.file_output = f, !.file_rollover = n]
  /\ logger = [i \in Loggers |-> IF i = "a" THEN LOGGER ELSE Logger_new]
  /\ FILE = OpenFile(GoodPath)
  /\ \E k \in 0..MaxThreshold : fileLines = OldLines(k)
  /\ TERMINAL_BUFFER = <<>>
  /\ FILE_BUFFER = <<>>
  /\ LOCKED = FALSE
  /\ stream = <<>>
  /\ disk = "ok"
  /\ stdout = "ok"
  /\ build = "debug"
  /\ slept = NoSleep
  /\ tail = <<>>
  /\ queueLock = NoLock
  /\ fmt = NoRender
  /\ calls = <<>>
  /\ cur = [c \in Callers |-> [pc |-> "idle", id |-> 0]]
  /\ term = [pc |-> "drain", writer |-> <<>>]
  /\ sink = [pc |-> "read", writer |-> <<>>, left |-> <<>>]
  /\ roller = [pc |-> "read", n |-> 0, logs |-> <<>>,
                left |-> <<>>, writer |-> <<>>]
  /\ fileLock = "free"
  /\ enqT = <<>>
  /\ enqF = <<>>
  /\ wroteF = <<>>
  /\ nsets = 0
  /\ nlogs = 0
  /\ ndisk = 0
  /\ lineBytes \in {b \in LineSizes : b < BufCapacity}
  /\ locking = "none"

NextLocks ==
  \/ (\E c \in Callers, l \in PipeLevels : start(c, "log", l))
       /\ nlogs < MaxLogs /\ UNCHANGED <<nsets, lineBytes, locking>>
  \/ (\E c \in Callers : log_terminal(c)) /\ UNCHANGED <<nsets, lineBytes, locking>>
  \/ (\E c \in Callers : log_file(c)) /\ UNCHANGED <<nsets, lineBytes, locking>>
  \/ terminal_lock /\ UNCHANGED <<nsets, lineBytes, locking>>
  \/ terminal_write /\ UNCHANGED <<nsets, lineBytes, locking>>
  \/ terminal_flush /\ UNCHANGED <<nsets, lineBytes, locking>>
  \/ file_read /\ UNCHANGED <<nsets, lineBytes, locking>>
  \/ file_lock /\ UNCHANGED <<nsets, lineBytes, locking>>
  \/ file_queue_lock /\ UNCHANGED <<nsets, lineBytes, locking>>
  \/ file_write /\ UNCHANGED <<nsets, lineBytes, locking>>
  \/ file_flush /\ UNCHANGED <<nsets, lineBytes, locking>>
  \/ roller_read /\ UNCHANGED <<nsets, lineBytes, locking>>
  \/ roller_lock /\ UNCHANGED <<nsets, lineBytes, locking>>
  \/ roller_wake /\ UNCHANGED <<nsets, lineBytes, locking>>
  \/ roller_set_locked /\ UNCHANGED <<nsets, lineBytes, locking>>
  \/ roller_truncate /\ UNCHANGED <<nsets, lineBytes, locking>>
  \/ roller_rewrite /\ UNCHANGED <<nsets, lineBytes, locking>>
  \/ roller_flush /\ UNCHANGED <<nsets, lineBytes, locking>>
  \/ roller_clear_locked /\ UNCHANGED <<nsets, lineBytes, locking>>
  \/ roller_unlock /\ UNCHANGED <<nsets, lineBytes, locking>>

SpecLocks == InitLocks /\ [][NextLocks]_vars

\* ------------------------------------------------------------------ SpecDrain
\* Producers against the drains: two callers log while the two sink loops
\* drain their queues statement by statement.
NextDrain ==
  \/ (\E c \in Callers, l \in PipeLevels : start(c, "log", l))
       /\ nlogs < MaxLogs /\ UNCHANGED <<nsets, lineBytes, locking>>
  \/ (\E c \in Callers : log_terminal(c)) /\ UNCHANGED <<nsets, lineBytes, locking>>
  \/ (\E c \in Callers : log_file(c)) /\ UNCHANGED <<nsets, lineBytes, locking>>
  \/ terminal_lock /\ UNCHANGED <<nsets, lineBytes, locking>>
  \/ terminal_writeln /\ UNCHANGED <<nsets, lineBytes, locking>>
  \/ terminal_clear /\ UNCHANGED <<nsets, lineBytes, locking>>
  \/ terminal_flush /\ UNCHANGED <<nsets, lineBytes, locking>>
  \/ file_read /\ UNCHANGED <<nsets, lineBytes, locking>>
  \/ file_lock /\ UNCHANGED <<nsets, lineBytes, locking>>
  \/ file_queue_lock /\ UNCHANGED <<nsets, lineBytes, locking>>
  \/ file_writeln /\ UNCHANGED <<nsets, lineBytes, locking>>
  \/ file_clear /\ UNCHANGED <<nsets, lineBytes, locking>>
  \/ file_flush /\ UNCHANGED <<nsets, lineBytes, locking>>

SpecDrain == InitLocks /\ [][NextDrain]_vars

\* ------------------------------------------------------------------ SpecRollSync
\* Every writer of the log file at once: one caller makes log and result_log
\* calls while the file sink and the rollover loop run over a file that starts
\* with up to MaxFileLines lines, and the disk can start failing.  The loops
\* write through their BufWriter one write at a time, so the two appends of a
\* result_log call can fall between any two of them.
NextRollSync ==
  \/ (\E c \in OneCaller, k \in {"log", "result_log"}, l \in PipeLevels : start(c, k, l))
       /\ nlogs < MaxRollLogs /\ UNCHANGED <<nsets, lineBytes, locking>>
  \/ (\E c \in OneCaller : log_file(c)) /\ UNCHANGED <<nsets, lineBytes, locking>>
  \/ (\E c \in OneCaller : result_open(c)) /\ UNCHANGED <<nsets, lineBytes, locking>>
  \/ (\E c \in OneCaller : result_write_text(c)) /\ UNCHANGED <<nsets, lineBytes, locking>>
  \/ (\E c \in OneCaller : result_write_newline(c)) /\ UNCHANGED <<nsets, lineBytes, locking>>
  \/ file_read /\ UNCHANGED <<nsets, lineBytes, locking>>
  \/ file_lock /\ UNCHANGED <<nsets, lineBytes, locking>>
  \/ file_queue_lock /\ UNCHANGED <<nsets, lineBytes, locking>>
  \/ file_writeln /\ UNCHANGED <<nsets, lineBytes, locking>>
  \/ file_clear /\ UNCHANGED <<nsets, lineBytes, locking>>
  \/ file_flush /\ UNCHANGED <<nsets, lineBytes, locking>>
  \/ roller_read /\ UNCHANGED <<nsets, lineBytes, locking>>
  \/ roller_lock /\ UNCHANGED <<nsets, lineBytes, locking>>
  \/ roller_wake /\ UNCHANGED <<nsets, lineBytes, locking>>
  \/ roller_set_locked /\ UNCHANGED <<nsets, lineBytes, locking>>
  \/ roller_truncate /\ UNCHANGED <<nsets, lineBytes, locking>>
  \/ roller_rewrite /\ UNCHANGED <<nsets, lineBytes, locking>>
  \/ roller_flush /\ UNCHANGED <<nsets, lineBytes, locking>>
  \/ roller_clear_locked /\ UNCHANGED <<nsets, lineBytes, locking>>
  \/ roller_unlock /\ UNCHANGED <<nsets, lineBytes, locking>>
  \/ disk_change /\ UNCHANGED <<nsets, lineBytes, locking>>

SpecRollSync == InitRoll /\ [][NextRollSync]_vars

\* ------------------------------------------------------------------ SpecLocking
\* The lock protocol alone: two caller threads, each running log,
\* structured_log, result_log, logger::log or a setter again and again, a
\* third thread that runs setters only, and the three loops.  A function is
\* the list of the lock operations it makes, in program order; each operation
\* is a step, so every lock is held across steps.  The locks are the configuration's RwLock (LOGGER), the two queue
\* locks, the FILE lock and the lock of the rollover flag (LOCKED).  The Mutex
\* result_log and logger::log make around the handle they have just opened is
\* theirs alone and is left out.
LockThreads == {"t1", "t2", "setter", "term", "sink", "roller"}

\* a lock taken and released again with no other lock operation in between
Locked(mode, lock) ==
  << [op |-> mode, lock |-> lock], [op |-> "unlock", lock |-> lock] >>

\* fault variant of log_locks: the call takes the file queue's lock and,
\* holding it, the FILE lock
log_locks_takes_file ==
  { Locked("read", "LOGGER")
      \o << [op |-> "write", lock |-> "FILE_BUFFER"] >>
      \o Locked("write", "FILE")
      \o << [op |-> "unlock", lock |-> "FILE_BUFFER"] >> }

\* log, structured_log: LOGGER.read() in a scope of its own; then, for each
\* sink the call writes to, the queue's lock for the push
log_locks ==
  { Locked("read", "LOGGER") \o t \o f :
      t \in {<<>>, Locked("write", "TERMINAL_BUFFER")},
      f \in {<<>>, Locked("write", "FILE_BUFFER")} }

\* result_log, logger::log: LOGGER.read() for the clone
result_log_locks == { Locked("read", "LOGGER") }

\* set_logger, which every setter ends with: LOGGER.write()
set_logger_locks == { Locked("write", "LOGGER") }

\* terminal_output, one cycle: LOGGER.read(); TERMINAL_BUFFER.write() over
\* the drain
terminal_output_locks ==
  { Locked("read", "LOGGER") \o Locked("write", "TERMINAL_BUFFER") }

\* file_output, one cycle: LOGGER.read(); on the idle path nothing else; else
\* FILE.write(), released after the sleep when there is no handle, and else
\* held over FILE_BUFFER.write() for the drain and over the flush
file_output_locks ==
  { Locked("read", "LOGGER"),
    Locked("read", "LOGGER") \o Locked("write", "FILE"),
    Locked("read", "LOGGER")
      \o << [op |-> "write", lock |-> "FILE"] >>
      \o Locked("write", "FILE_BUFFER")
      \o << [op |-> "unlock", lock |-> "FILE"] >> }

\* file_roller, one cycle: LOGGER.read(); on the idle paths nothing else, or
\* FILE.write() released after the sleep; on the rollover path FILE.write()
\* held over LOCKED.write() for true, the rewrite, and LOCKED.write() for false
file_roller_locks ==
  { Locked("read", "LOGGER"),
    Locked("read", "LOGGER") \o Locked("write", "FILE"),
    Locked("read", "LOGGER")
      \o << [op |-> "write", lock |-> "FILE"] >>
      \o Locked("write", "LOCKED") \o Locked("write", "LOCKED")
      \o << [op |-> "unlock", lock |-> "FILE"] >> }

\* the functions a thread runs
LockScripts(t) ==
  CASE t = "term"   -> terminal_output_locks
    [] t = "sink"   -> file_output_locks
    [] t = "roller" -> file_roller_locks
    [] t = "setter" -> set_logger_locks
    [] OTHER        -> log_locks \cup result_log_locks \cup set_logger_locks

\* RwLock: a write lock is granted when no thread holds the lock, a read lock
\* when no thread holds it for writing
Available(t, want) ==
  \A u \in LockThreads : \A h \in locking[u].holds :
    h.lock = want.lock => (u # t /\ want.op = "read" /\ h.op = "read")

\* a thread enters one of its functions (a loop: its next cycle)
lock_begin(t) ==
  /\ locking[t].todo = <<>>
  /\ \E s \in LockScripts(t) : locking' = [locking EXCEPT ![t].todo = s]
  /\ UNCHANGED <<LOGGER, logger, TERMINAL_BUFFER, FILE_BUFFER, FILE, LOCKED,
                 fileLines, stream, disk, stdout, build, slept, tail,
                 queueLock, fmt, calls, cur, term, sink, roller, fileLock,
                 enqT, enqF, wroteF, nsets, nlogs, ndisk, lineBytes>>

\* .read() / .write(): the thread gets the lock it asks for
lock_acquire(t) ==
  /\ locking[t].todo # <<>>
  /\ Head(locking[t].todo).op \in {"read", "write"}
  /\ Available(t, Head(locking[t].todo))
  /\ locking' = [locking EXCEPT ![t].todo = Tail(@),
                                ![t].holds = @ \cup {Head(locking[t].todo)}]
  /\ UNCHANGED <<LOGGER, logger, TERMINAL_BUFFER, FILE_BUFFER, FILE, LOCKED,
                 fileLines, stream, disk, stdout, build, slept, tail,
                 queueLock, fmt, calls, cur, term, sink, roller, fileLock,
                 enqT, enqF, wroteF, nsets, nlogs, ndisk, lineBytes>>

\* the guard is dropped at the end of its statement or scope
lock_release(t) ==
  /\ locking[t].todo # <<>>
  /\ Head(locking[t].todo).op = "unlock"
  /\ locking' = [locking EXCEPT
                   ![t].todo = Tail(@),
                   ![t].holds = {h \in @ : h.lock # Head(locking[t].todo).lock}]
  /\ UNCHANGED <<LOGGER, logger, TERMINAL_BUFFER, FILE_BUFFER, FILE, LOCKED,
                 fileLines, stream, disk, stdout, build, slept, tail,
                 queueLock, fmt, calls, cur, term, sink, roller, fileLock,
                 enqT, enqF, wroteF, nsets, nlogs, ndisk, lineBytes>>

\* no thread is inside a function; the rest of the state is left as
\* constructed
InitLocking ==
  /\ LOGGER = Logger_new
  /\ logger = [i \in Loggers |-> Logger_new]
  /\ TERMINAL_BUFFER = <<>>
  /\ FILE_BUFFER = <<>>
  /\ FILE = "none"
  /\ LOCKED = FALSE
  /\ fileLines = <<>>
  /\ stream = <<>>
  /\ disk = "ok"
  /\ stdout = "ok"
  /\ build = "debug"
  /\ slept = NoSleep
  /\ tail = <<>>
  /\ queueLock = NoLock
  /\ fmt = NoRender
  /\ calls = <<>>
  /\ cur = [c \in Callers |-> [pc |-> "idle", id |-> 0]]
  /\ term = [pc |-> "drain", writer |-> <<>>]
  /\ sink = [pc |-> "read", writer |-> <<>>, left |-> <<>>]
  /\ roller = [pc |-> "read", n |-> 0, logs |-> <<>>,
                left |-> <<>>, writer |-> <<>>]
  /\ fileLock = "free"
  /\ enqT = <<>>
  /\ enqF = <<>>
  /\ wroteF = <<>>
  /\ nsets = 0
  /\ nlogs = 0
  /\ ndisk = 0
  /\ lineBytes \in ShortLines
  /\ locking = [t \in LockThreads |-> [todo |-> <<>>, holds |-> {}]]

NextLocking ==
  \/ \E t \in LockThreads : lock_begin(t)
  \/ \E t \in LockThreads : lock_acquire(t)
  \/ \E t \in LockThreads : lock_release(t)

SpecLocking == InitLocking /\ [][NextLocking]_vars

\* ------------------------------------------------------------------ LoopFairSpec
\* The three loops under fair scheduling, over every handle FILE can hold: no
\* handle, a handle on a regular file, a handle on a file that cannot seek (a
\* FIFO, a terminal).  One caller logs; file output is enabled with a path.
\* Every step of the call and of the loops is weakly fair, the acquisition of
\* the FILE lock included.
InitLoop ==
  /\ \E t \in BOOLEAN, n \in {0} \cup RolloverArgs :
       LOGGER = [Logger_new EXCEPT !.path = GoodPath, !.terminal_output = t,
                                   !.file_output = TRUE, !.file_rollover = n]
  /\ logger = [i \in Loggers |-> IF i = "a" THEN LOGGER ELSE Logger_new]
  /\ FILE \in {"none", "open", "pipe"}
  /\ \E k \in 0..MaxThreshold : fileLines = OldLines(k)
  /\ TERMINAL_BUFFER = <<>>
  /\ FILE_BUFFER = <<>>
  /\ LOCKED = FALSE
  /\ stream = <<>>
  /\ disk = "ok"
  /\ stdout = "ok"
  /\ build = "debug"
  /\ slept = NoSleep
  /\ tail = <<>>
  /\ queueLock = NoLock
  /\ fmt = NoRender
  /\ calls = <<>>
  /\ cur = [c \in Callers |-> [pc |-> "idle", id |-> 0]]
  /\ term = [pc |-> "drain", writer |-> <<>>]
  /\ sink = [pc |-> "read", writer |-> <<>>, left |-> <<>>]
  /\ roller = [pc |-> "read", n |-> 0, logs |-> <<>>,
                left |-> <<>>, writer |-> <<>>]
  /\ fileLock = "free"
  /\ enqT = <<>>
  /\ enqF = <<>>
  /\ wroteF = <<>>
  /\ nsets = 0
  /\ nlogs = 0
  /\ ndisk = 0
  /\ lineBytes \in {b \in LineSizes : b < BufCapacity}
  /\ locking = "none"

NextLoop ==
  \/ (\E c \in OneCaller, l \in PipeLevels : start(c, "log", l))
       /\ nlogs < MaxFairLogs /\ UNCHANGED <<nsets, lineBytes, locking>>
  \/ (\E c \in OneCaller : log_terminal(c)) /\ UNCHANGED <<nsets, lineBytes, locking>>
  \/ (\E c \in OneCaller : log_file(c)) /\ UNCHANGED <<nsets, lineBytes, locking>>
  \/ terminal_drain /\ UNCHANGED <<nsets, lineBytes, locking>>
  \/ terminal_flush /\ UNCHANGED <<nsets, lineBytes, locking>>
  \/ file_read /\ UNCHANGED <<nsets, lineBytes, locking>>
  \/ file_lock /\ UNCHANGED <<nsets, lineBytes, locking>>
  \/ file_wake /\ UNCHANGED <<nsets, lineBytes, locking>>
  \/ file_drain /\ UNCHANGED <<nsets, lineBytes, locking>>
  \/ file_flush /\ UNCHANGED <<nsets, lineBytes, locking>>
  \/ roller_read /\ UNCHANGED <<nsets, lineBytes, locking>>
  \/ roller_lock /\ UNCHANGED <<nsets, lineBytes, locking>>
  \/ roller_wake /\ UNCHANGED <<nsets, lineBytes, locking>>
  \/ roller_set_locked /\ UNCHANGED <<nsets, lineBytes, locking>>
  \/ roller_truncate /\ UNCHANGED <<nsets, lineBytes, locking>>
  \/ roller_rewrite /\ UNCHANGED <<nsets, lineBytes, locking>>
  \/ roller_flush /\ UNCHANGED <<nsets, lineBytes, locking>>
  \/ roller_clear_locked /\ UNCHANGED <<nsets, lineBytes, locking>>
  \/ roller_unlock /\ UNCHANGED <<nsets, lineBytes, locking>>
  \/ disk_change /\ UNCHANGED <<nsets, lineBytes, locking>>

LoopFairness ==
  /\ WF_vars((\E c \in OneCaller : log_terminal(c)) /\ UNCHANGED <<nsets, lineBytes, locking>>)
  /\ WF_vars((\E c \in OneCaller : log_file(c)) /\ UNCHANGED <<nsets, lineBytes, locking>>)
  /\ WF_vars(terminal_drain /\ UNCHANGED <<nsets, lineBytes, locking>>)
  /\ WF_vars(terminal_flush /\ UNCHANGED <<nsets, lineBytes, locking>>)
  /\ WF_vars(file_read /\ UNCHANGED <<nsets, lineBytes, locking>>)
  /\ WF_vars(file_lock /\ UNCHANGED <<nsets, lineBytes, locking>>)
  /\ WF_vars(file_wake /\ UNCHANGED <<nsets, lineBytes, locking>>)
  /\ WF_vars(file_drain /\ UNCHANGED <<nsets, lineBytes, locking>>)
  /\ WF_vars(file_flush /\ UNCHANGED <<nsets, lineBytes, locking>>)
  /\ WF_vars(roller_read /\ UNCHANGED <<nsets, lineBytes, locking>>)
  /\ WF_vars(roller_lock /\ UNCHANGED <<nsets, lineBytes, locking>>)
  /\ WF_vars(roller_wake /\ UNCHANGED <<nsets, lineBytes, locking>>)
  /\ WF_vars(roller_set_locked /\ UNCHANGED <<nsets, lineBytes, locking>>)
  /\ WF_vars(roller_truncate /\ UNCHANGED <<nsets, lineBytes, locking>>)
  /\ WF_vars(roller_rewrite /\ UNCHANGED <<nsets, lineBytes, locking>>)
  /\ WF_vars(roller_flush /\ UNCHANGED <<nsets, lineBytes, locking>>)
  /\ WF_vars(roller_clear_locked /\ UNCHANGED <<nsets, lineBytes, locking>>)
  /\ WF_vars(roller_unlock /\ UNCHANGED <<nsets, lineBytes, locking>>)

LoopFairSpec == InitLoop /\ [][NextLoop]_vars /\ LoopFairness

\* ------------------------------------------------------------------ properties
\* membership in a list, the lines of one message in a sequence of lines
Member(x, list) == \E k \in 1..Len(list) : list[k] = x
IsWhole(line) == "msg" \in DOMAIN line
Count(id, lines) ==
  Cardinality({k \in 1..Len(lines) : IsWhole(lines[k]) /\ lines[k].msg = id})
Ids == 1..Len(calls)

\* the texts a sequence of lines is made of, in their order: a whole line is
\* its own text, a line several writes made holds the text of each
RECURSIVE Flatten(_)
Flatten(lines) ==
  IF lines = <<>> THEN <<>>
  ELSE texts_of(Head(lines)) \o Flatten(Tail(lines))

\* every text in the file: those of its lines, then the unterminated end
FileTexts == Flatten(fileLines) \o tail

\* message id has left no line on any sink
NoOutput(id) ==
  /\ Count(id, TERMINAL_BUFFER) = 0
  /\ Count(id, FILE_BUFFER) = 0
  /\ Count(id, FileTexts) = 0
  /\ Count(id, stream) = 0

\* a finished log or structured_log call that passed the global filter
Passed(id) ==
  /\ calls[id].kind \in {"log", "structured_log"}
  /\ calls[id].res = "ok"
  /\ calls[id].level >= LOGGER.output_level
  /\ ~Member(calls[id].level, LOGGER.ignore)

\* C1: a log, structured_log or result_log call at a level below the minimum
\* level leaves no line in the terminal queue, the file queue, the file or the
\* terminal stream.
C1_BelowMinimumNoOutput ==
  \A id \in Ids : calls[id].level < LOGGER.output_level => NoOutput(id)

\* C1 witness: a call below the minimum level has returned under a
\* configuration in which both sinks would otherwise take the line.
C1_Witness ==
  \E id \in Ids :
    /\ calls[id].level = Critical
    /\ LOGGER.output_level = Diagnostic
    /\ calls[id].res = "ok"
    /\ calls[id].kind = "result_log"
    /\ LOGGER.terminal_output /\ LOGGER.file_output /\ LOGGER.path = GoodPath
    /\ LOGGER.ignore = <<>> /\ LOGGER.file_ignore = <<>>
    /\ LOGGER.terminal_ignore = <<>>

\* C2: a call at a level in the global ignore list leaves no line on any sink,
\* whatever the minimum level; a call at a level not in the list that is at or
\* above the minimum level still reaches the terminal when the ignore list is
\* not empty.
C2_GlobalIgnoreIndependent ==
  \A id \in Ids :
    /\ Member(calls[id].level, LOGGER.ignore) => NoOutput(id)
    /\ ( /\ Passed(id)
         /\ LOGGER.terminal_output
         /\ ~Member(calls[id].level, LOGGER.terminal_ignore) )
       => Count(id, TERMINAL_BUFFER) = 1

\* C2 witness: a call at an ignored level that is above the minimum level has
\* returned, with both sinks ready to take the line.
C2_Witness ==
  \E id \in Ids :
    /\ Member(calls[id].level, LOGGER.ignore)
    /\ calls[id].level > LOGGER.output_level
    /\ calls[id].res = "ok"
    /\ LOGGER.terminal_output /\ LOGGER.file_output /\ LOGGER.path = GoodPath
    /\ LOGGER.file_ignore = <<>> /\ LOGGER.terminal_ignore = <<>>

\* C3: a level only in the file ignore list gets no line in the file queue and
\* still gets its line in the terminal queue when terminal output is enabled;
\* a level only in the terminal ignore list gets no line in the terminal queue
\* and still gets its line in the file queue when file output is enabled and a
\* path is set.
C3_SinkIgnoreIndependent ==
  \A id \in Ids : Passed(id) =>
    /\ ( /\ Member(calls[id].level, LOGGER.file_ignore)
         /\ ~Member(calls[id].level, LOGGER.terminal_ignore) )
       => /\ Count(id, FILE_BUFFER) = 0
          /\ LOGGER.terminal_output => Count(id, TERMINAL_BUFFER) = 1
    /\ ( /\ Member(calls[id].level, LOGGER.terminal_ignore)
         /\ ~Member(calls[id].level, LOGGER.file_ignore) )
       => /\ Count(id, TERMINAL_BUFFER) = 0
          /\ (LOGGER.file_output /\ LOGGER.path # NoPath)
               => Count(id, FILE_BUFFER) = 1

\* C3 witness: a finished log call at a level that only the file ignore list
\* holds, with file output enabled and a path set: its line is in the terminal
\* queue and not in the file queue.
C3_Witness ==
  \E id \in Ids :
    /\ Passed(id)
    /\ calls[id].kind = "log"
    /\ Member(calls[id].level, LOGGER.file_ignore)
    /\ LOGGER.terminal_ignore = <<>>
    /\ LOGGER.terminal_output /\ LOGGER.file_output /\ LOGGER.path = GoodPath
    /\ Count(id, TERMINAL_BUFFER) = 1
    /\ Count(id, FILE_BUFFER) = 0

\* C4: a finished log or structured_log call that passed the global filter has
\* exactly one line in the terminal queue if terminal output is enabled and the
\* level is not terminal-ignored, and none otherwise; exactly one line in the
\* file queue if file output is enabled, the level is not file-ignored and a
\* path is configured, and none otherwise.
C4_OneLinePerAcceptingSink ==
  \A id \in Ids : Passed(id) =>
    /\ Count(id, TERMINAL_BUFFER) =
         (IF LOGGER.terminal_output
             /\ ~Member(calls[id].level, LOGGER.terminal_ignore)
          THEN 1 ELSE 0)
    /\ Count(id, FILE_BUFFER) =
         (IF LOGGER.file_output
             /\ ~Member(calls[id].level, LOGGER.file_ignore)
             /\ LOGGER.path # NoPath
          THEN 1 ELSE 0)

\* C4 witness: a finished structured_log call with file output enabled and no
\* path configured: one line in the terminal queue, none in the file queue.
C4_Witness ==
  \E id \in Ids :
    /\ Passed(id)
    /\ calls[id].kind = "structured_log"
    /\ LOGGER.terminal_output /\ LOGGER.file_output /\ LOGGER.path = NoPath
    /\ LOGGER.file_ignore = <<>> /\ LOGGER.terminal_ignore = <<>>
    /\ Count(id, TERMINAL_BUFFER) = 1
    /\ Count(id, FILE_BUFFER) = 0

\* the lines of a sequence that came through a queue (result_log writes its
\* lines itself)
FromQueue(lines) ==
  SelectSeq(lines, LAMBDA ln : ln.msg \in Ids /\ calls[ln.msg].kind # "result_log")

\* the position of a line in a sequence that holds it
Pos(ln, lines) == CHOOSE k \in 1..Len(lines) : lines[k] = ln

\* part holds lines of whole only, in the order whole has them
InOrder(part, whole) ==
  /\ \A i \in 1..Len(part) : \E k \in 1..Len(whole) : whole[k] = part[i]
  /\ \A i, j \in 1..Len(part) :
       i < j => Pos(part[i], whole) < Pos(part[j], whole)

\* the calls of one caller are enqueued in call order
CallOrder(lines) ==
  \A i, j \in 1..Len(lines) :
    (i < j /\ calls[lines[i].msg].by = calls[lines[j].msg].by)
      => lines[i].msg < lines[j].msg

\* C5: each sink writes its lines in the order they were enqueued: what the
\* terminal stream holds, then the terminal writer, then the terminal queue is
\* the sequence of lines pushed to the terminal queue; what the file sink has
\* taken, then the file queue, is the sequence pushed to the file queue, and the
\* queued texts in the file and in the file writer are in that order; two
\* calls of one caller are enqueued in call order.
C5_Fifo ==
  /\ FromQueue(stream) \o lines_of(term.writer) \o TERMINAL_BUFFER = enqT
  /\ wroteF \o FILE_BUFFER = enqF
  /\ InOrder(FromQueue(FileTexts) \o lines_of(sink.writer), enqF)
  /\ CallOrder(enqT)
  /\ CallOrder(enqF)

\* C5 witness: two log calls made in sequence by one caller have both been
\* written to the terminal stream and to the file.
C5_Witness ==
  /\ Len(calls) = 2
  /\ calls[1].by = calls[2].by
  /\ FromQueue(stream) = enqT /\ Len(enqT) = 2
  /\ FromQueue(fileLines) = enqF /\ Len(enqF) = 2

\* C6: under fair scheduling of the loops, a line in the file queue is
\* eventually in the file, unless file output is disabled, the path is unset,
\* the handle is not open or the disk fails in the meantime.
C6_QueuedLineEventuallyWritten ==
  \A id \in 1..MaxFairLogs :
    (Count(id, FILE_BUFFER) = 1)
      ~> ( \/ Count(id, FileTexts) >= 1
           \/ ~LOGGER.file_output
           \/ LOGGER.path = NoPath
           \/ FILE = "none"
           \/ disk = "fail" )

\* C7: a call made while file output is disabled never has a line in the file
\* queue, in the file sink's writer, in the file or in the lines the rollover
\* loop rewrites, whatever is configured later.
C7_DisabledNeverWritten ==
  \A id \in Ids :
    ~calls[id].snap.file_output =>
      /\ Count(id, enqF) = 0
      /\ Count(id, FILE_BUFFER) = 0
      /\ Count(id, lines_of(sink.writer)) = 0
      /\ Count(id, FileTexts) = 0
      /\ Count(id, Flatten(roller.logs)) = 0

\* C7 witness: a log call was made with a path set and file output disabled;
\* file output was enabled afterwards and a later call's line is in the file.
C7_Witness ==
  \E id, later \in Ids :
    /\ id < later
    /\ calls[id].kind = "log"
    /\ calls[id].res = "ok"
    /\ ~calls[id].snap.file_output
    /\ calls[id].snap.path = GoodPath
    /\ LOGGER.file_output
    /\ Count(later, fileLines) = 1

\* the sinks a finished log call reached are the ones its snapshot names
SnapshotDecides ==
  \A id \in Ids :
    (calls[id].kind = "log" /\ calls[id].res = "ok") =>
      /\ Count(id, enqT) =
           (IF calls[id].level >= calls[id].snap.output_level
               /\ ~Member(calls[id].level, calls[id].snap.ignore)
               /\ calls[id].snap.terminal_output
               /\ ~Member(calls[id].level, calls[id].snap.terminal_ignore)
            THEN 1 ELSE 0)
      /\ Count(id, enqF) =
           (IF calls[id].level >= calls[id].snap.output_level
               /\ ~Member(calls[id].level, calls[id].snap.ignore)
               /\ calls[id].snap.file_output
               /\ ~Member(calls[id].level, calls[id].snap.file_ignore)
               /\ calls[id].snap.path # NoPath
            THEN 1 ELSE 0)

\* one step: a new call's snapshot is the whole shared configuration, the
\* snapshot of a call never changes, a new shared configuration is the whole
\* value of the Logger whose setter ran, and the rollover loop's threshold is
\* the one of the configuration it read
SnapshotStep ==
  /\ \A id \in 1..Len(calls') :
       IF id \in Ids THEN calls'[id].snap = calls[id].snap
       ELSE calls'[id].snap = LOGGER
  /\ LOGGER' # LOGGER => \E i \in DOMAIN logger' : LOGGER' = logger'[i]
  /\ (roller.pc = "read" /\ roller'.pc = "lock")
       => roller'.n = LOGGER.file_rollover

\* C8: every reader takes the whole shared configuration as one setter call
\* published it, and its call or cycle is decided by that snapshot alone.
C8_WholeSnapshot == [](SnapshotDecides) /\ [][SnapshotStep]_vars

\* C8 witness: a log call is between its terminal push and its file push, with
\* a snapshot that has file output enabled, and file output has been disabled
\* in the shared configuration since.
C8_Witness ==
  \E c \in Callers :
    /\ cur[c].pc = "file"
    /\ calls[cur[c].id].snap.file_output
    /\ ~LOGGER.file_output

\* C9: every setter replaces the shared configuration: right after the call
\* the shared configuration holds the value the setter was given.
C9_EverySetterPublishes ==
  [][ \A i \in Loggers :
        /\ \A p \in PathArgs : path(i, p) => LOGGER'.path = p
        /\ \A v \in BOOLEAN : terminal(i, v) => LOGGER'.terminal_output = v
        /\ \A v \in BOOLEAN : file(i, v) => LOGGER'.file_output = v
        /\ \A l \in {Error, None} : level(i, l) => LOGGER'.output_level = l
        /\ \A l \in IgnoreArgs : ignore(i, l) => Member(l, LOGGER'.ignore)
        /\ \A l \in IgnoreArgs :
             file_ignore(i, l) => Member(l, LOGGER'.file_ignore)
        /\ \A l \in IgnoreArgs :
             terminal_ignore(i, l) => Member(l, LOGGER'.terminal_ignore)
        /\ \A l \in StyleLevels, ss \in StyleSets :
             style(i, l, ss) => LOGGER'.styles[l] = ss
        /\ \A l \in StyleLevels, st \in StyleArgs :
             add_style(i, l, st) => Member(st, LOGGER'.styles[l])
        /\ \A l \in StyleLevels, st \in StyleArgs :
             remove_style(i, l, st) => ~Member(st, LOGGER'.styles[l])
        /\ \A n \in RolloverArgs :
             file_rollover(i, n) => LOGGER'.file_rollover = n ]_vars

\* C10: after each setter call on a Logger, the shared configuration is that
\* Logger with every setting its earlier calls applied.
C10_ChainInEffect ==
  [][ \A i \in Loggers : Setter(i) => LOGGER' = logger'[i] ]_vars

\* the order of the levels, lowest first, and the place of a level in it
LevelOrder ==
  <<Trace, Debug, Info, Warning, Error, Critical, Fatal, Diagnostic, None>>
Rank(l) == CHOOSE k \in 1..Len(LevelOrder) : LevelOrder[k] = l

\* C18: the comparison of levels is the total order Trace < Debug < Info <
\* Warning < Error < Critical < Fatal < Diagnostic < None, None is above every
\* other level, and the filter of log and structured_log follows that order: a
\* call the terminal would take is dropped exactly when its level comes before
\* the minimum level.
C18_LevelOrder ==
  /\ \A a, b \in Level : lt(a, b) <=> Rank(a) < Rank(b)
  /\ \A a \in Level : ~lt(None, a)
  /\ \A id \in Ids :
       ( /\ calls[id].kind \in {"log", "structured_log"}
         /\ calls[id].res = "ok"
         /\ ~Member(calls[id].level, LOGGER.ignore)
         /\ LOGGER.terminal_output
         /\ ~Member(calls[id].level, LOGGER.terminal_ignore) )
       => ( Count(id, TERMINAL_BUFFER) = 1
              <=> Rank(calls[id].level) >= Rank(LOGGER.output_level) )

\* C18 witness: a log call at Fatal has returned without a line while the
\* minimum level is Diagnostic and the terminal would take the line.
C18_Witness ==
  \E id \in Ids :
    /\ calls[id].kind = "log"
    /\ calls[id].level = Fatal
    /\ calls[id].res = "ok"
    /\ LOGGER.output_level = Diagnostic
    /\ LOGGER.ignore = <<>> /\ LOGGER.terminal_ignore = <<>>
    /\ LOGGER.terminal_output
    /\ Count(id, TERMINAL_BUFFER) = 0

\* C19: with the minimum level None, no call at any level leaves a line on any
\* sink.
C19_NoneSuppressesAll ==
  \A id \in Ids : LOGGER.output_level = None => NoOutput(id)

\* C20: a finished log or structured_log call at Diagnostic has its line in
\* the queue of every enabled sink, whatever the minimum level and the ignore
\* lists are.
C20_DiagnosticBypasses ==
  \A id \in Ids :
    ( /\ calls[id].kind \in {"log", "structured_log"}
      /\ calls[id].res = "ok"
      /\ calls[id].level = Diagnostic )
    => /\ LOGGER.terminal_output => Count(id, TERMINAL_BUFFER) = 1
       /\ (LOGGER.file_output /\ LOGGER.path # NoPath)
            => Count(id, FILE_BUFFER) = 1

\* the last n elements of a sequence, in their order
LastN(lines, n) == [k \in 1..n |-> lines[Len(lines) - n + k]]

\* the rollover loop holds the file's lines from its read to its truncation;
\* during the rewrite the file, once the content of the rollover's writer and
\* the texts and terminators it has still to write are appended to it, is the
\* last n of the lines read; the file holds exactly those from the flush on,
\* and the flag is set exactly from before the truncation to after the rewrite
RollCycleState ==
  /\ roller.pc \in {"flag", "truncate"}
       => /\ roller.logs = read_lines(fileLines, tail)
          /\ roller.n > 0
          /\ Len(roller.logs) > roller.n
  /\ roller.pc = "rewrite"
       => write_chunks([lines |-> fileLines, rest |-> tail],
                       roller.writer \o roller.left)
            = [lines |-> LastN(roller.logs, roller.n), rest |-> <<>>]
  /\ roller.pc \in {"unflag", "unlock"}
       => /\ fileLines = LastN(roller.logs, roller.n)
          /\ tail = <<>>
  /\ LOCKED <=> roller.pc \in {"truncate", "rewrite", "unflag"}

\* one step of a rollover cycle: a file over the threshold is taken for
\* truncation, and the end of the cycle leaves the last n lines that were read
\* and the flag false
RollCycleStep ==
  /\ ( /\ roller.pc = "lock" /\ roller'.pc # "lock"
       /\ Len(read_lines(fileLines, tail)) > roller.n )
     => roller'.pc = "flag"
  /\ (roller.pc = "unlock" /\ roller'.pc # "unlock")
     => /\ roller'.pc = "read"
        /\ fileLines' = LastN(roller.logs, roller.n)
        /\ Len(fileLines') = roller.n
        /\ ~LOCKED'

\* C11: for a threshold N > 0 and a file of more than N lines, one rollover
\* cycle leaves exactly the last N lines of the file in their order, and the
\* rollover-in-progress flag is false again when the cycle ends.
C11_RolloverKeepsLastN == [](RollCycleState) /\ [][RollCycleStep]_vars

\* C11 witness: a file of three lines has been rolled over with threshold 2:
\* it holds the second and the third line, and the flag is false.
C11_Witness ==
  /\ LOGGER.file_rollover = 2
  /\ fileLines = <<OldLine(2), OldLine(3)>>
  /\ roller.pc = "read"
  /\ ~LOCKED

\* while the rollover loop is between its read and the end of its rewrite the
\* file sink holds nothing to write and is not inside its locked section
SinkOutsideRollover ==
  roller.pc \in {"flag", "truncate", "rewrite", "unflag", "unlock"} =>
    /\ sink.pc \in {"read", "lock"}
    /\ sink.writer = <<>> /\ sink.left = <<>>
    /\ fileLock = "roller"

\* every line of the file is one whole line: a line an earlier run left or
\* the line of one call, and no call has two
WholeLines ==
  \A k \in 1..Len(fileLines) :
    LET ln == fileLines[k]
    IN /\ "msg" \in DOMAIN ln
       /\ IF ln.msg < 0 THEN ln = OldLine(0 - ln.msg)
          ELSE /\ ln.msg \in Ids
               /\ ln = FileLine(ln.msg, calls[ln.msg].level)
               /\ Count(ln.msg, fileLines) = 1

\* a step of the file sink that changes the file is made with the FILE guard
\* held and the rollover loop outside its read-to-rewrite section
SinkWriteStep ==
  (sink' # sink /\ (fileLines' # fileLines \/ tail' # tail))
    => /\ roller.pc \in {"read", "lock"}
       /\ roller' = roller
       /\ fileLock = "sink"

\* the exclusion of the two loops alone: the sink is outside its locked
\* section while a rollover runs, and writes only with the rollover idle
SinkRolloverExclusion ==
  [](SinkOutsideRollover) /\ [][SinkWriteStep]_vars

\* C12: the file sink never writes to the file between the rollover's read of
\* the file and the end of its truncate-and-rewrite, and in every interleaving
\* the file holds whole lines only.
C12_NoSinkWriteDuringRollover ==
  [](SinkOutsideRollover /\ WholeLines) /\ [][SinkWriteStep]_vars

\* a line waiting in the file queue while a rollover runs is not among the
\* lines that rollover read, and an idle rollover loop holds no lines
QueuedNotInRollover ==
  /\ \A id \in Ids :
       ( /\ roller.pc \in {"flag", "truncate", "rewrite", "unflag", "unlock"}
         /\ Count(id, FILE_BUFFER) > 0 )
         => Count(id, Flatten(roller.logs)) = 0
  /\ roller.pc \in {"read", "lock", "sleep"} => roller.logs = <<>>

\* one step: the rollover loop leaves the file queue and the file sink alone;
\* a queued line stays queued until the sink takes it, and is then in the
\* sink's writer or in the file unless the disk has failed; a text leaves the
\* file only at the truncation of a rollover, and a text that came through
\* the queue only when that rollover had read it, so that nothing appended
\* after the rewrite is removed
RolloverLosesNothing ==
  /\ roller' # roller => (FILE_BUFFER' = FILE_BUFFER /\ sink' = sink)
  /\ \A k \in 1..Len(FILE_BUFFER) :
       \/ Member(FILE_BUFFER[k], FILE_BUFFER')
       \/ Member(FILE_BUFFER[k], sink'.writer)
       \/ Member(FILE_BUFFER[k], FileTexts')
       \/ ndisk > 0
  /\ \A k \in 1..Len(sink.writer) :
       \/ Member(sink.writer[k], sink'.writer)
       \/ Member(sink.writer[k], FileTexts')
       \/ "nl" \in DOMAIN sink.writer[k]
       \/ ndisk > 0
  /\ \A k \in 1..Len(FileTexts) :
       \/ Member(FileTexts[k], FileTexts')
       \/ /\ roller.pc = "truncate" /\ roller'.pc = "rewrite"
          /\ Member(FileTexts[k], enqF)
               => Member(FileTexts[k], Flatten(roller.logs))

C14_ResultLogNeverPanics ==
  \A id \in Ids :
    LET r == calls[id]
        passed == ~(r.level < r.snap.output_level \/ Member(r.level, r.snap.ignore))
        toFile == /\ r.snap.file_output /\ r.snap.path # NoPath
                  /\ ~Member(r.level, r.snap.file_ignore)
        toTerminal == /\ r.snap.terminal_output
                      /\ ~Member(r.level, r.snap.terminal_ignore)
    IN (r.kind = "result_log" /\ r.res # "running") =>
         /\ r.res \in {"ok", "err"}
         /\ (passed /\ toFile /\ (r.snap.path = BadPath \/ disk = "fail"))
              => r.res = "err"
         /\ r.res = "ok" =>
              \/ ~passed
              \/ /\ toFile => Count(id, FileTexts) = 1
                 /\ toTerminal => Count(id, stream) = 1

\* no line of a result_log call is or was in a queue or in a sink loop's
\* writer, and a result_log call that returned Ok with the terminal taking its
\* level has its line on the terminal stream
ResultLogOutsideQueues ==
  \A id \in Ids : calls[id].kind = "result_log" =>
    /\ Count(id, enqT) = 0 /\ Count(id, enqF) = 0
    /\ Count(id, TERMINAL_BUFFER) = 0 /\ Count(id, FILE_BUFFER) = 0
    /\ Count(id, lines_of(term.writer)) = 0 /\ Count(id, lines_of(sink.writer)) = 0
    /\ ( /\ calls[id].res = "ok"
         /\ calls[id].level >= calls[id].snap.output_level
         /\ ~Member(calls[id].level, calls[id].snap.ignore)
         /\ calls[id].snap.terminal_output
         /\ ~Member(calls[id].level, calls[id].snap.terminal_ignore) )
       => Count(id, stream) = 1

\* one step of a result_log call leaves both queues as they are; its two file
\* writes put the call's text and then the terminator at the end of the file,
\* and its print puts the line onto the stream
ResultLogStep ==
  /\ ( /\ Len(calls') > Len(calls)
       /\ calls'[Len(calls')].kind = "result_log" )
     => (TERMINAL_BUFFER' = TERMINAL_BUFFER /\ FILE_BUFFER' = FILE_BUFFER)
  /\ \A c \in Callers :
       ( /\ cur[c].pc \in {"rfile", "rtext", "rnewline", "rterminal"}
         /\ cur'[c] # cur[c] ) =>
         LET id == cur[c].id
         IN /\ TERMINAL_BUFFER' = TERMINAL_BUFFER
            /\ FILE_BUFFER' = FILE_BUFFER
            /\ (cur[c].pc = "rtext" /\ calls'[id].res # "err")
                 => /\ tail' = Append(tail,
                                      [msg |-> id,
                                       level |-> to_string(calls[id].level)])
                    /\ fileLines' = fileLines
            /\ (cur[c].pc = "rnewline" /\ calls'[id].res # "err")
                 => /\ Len(fileLines') = Len(fileLines) + 1
                    /\ Flatten(fileLines') = FileTexts
                    /\ tail' = <<>>
            /\ (cur[c].pc = "rterminal" /\ calls'[id].res = "ok")
                 => /\ Len(stream') = Len(stream) + 1
                    /\ stream'[Len(stream')].msg = id

\* C15: result_log leaves the terminal queue and the file queue unchanged, and
\* its output is written by the call itself before it returns.
C15_ResultLogBypassesQueues ==
  [](ResultLogOutsideQueues) /\ [][ResultLogStep]_vars

\* C15 witness: a result_log call has returned Ok with its line in the file
\* and on the terminal stream while the line of a log call waits in the
\* terminal queue.
C15_Witness ==
  \E id \in Ids :
    /\ calls[id].kind = "result_log"
    /\ calls[id].res = "ok"
    /\ Count(id, fileLines) = 1
    /\ Count(id, stream) = 1
    /\ Len(TERMINAL_BUFFER) > 0

\* the kinds of call that go through the queues
Queued == {"log", "structured_log"}

\* one step of a log or structured_log call: the file, the handle, the
\* terminal stream, the configuration and the rollover flag stay as they are,
\* and each queue is unchanged or has the call's line appended
QueuedCallStep ==
  /\ ( /\ Len(calls') > Len(calls)
       /\ calls'[Len(calls')].kind \in Queued )
     => UNCHANGED <<TERMINAL_BUFFER, FILE_BUFFER, fileLines, FILE, stream,
                    LOGGER, logger, LOCKED>>
  /\ \A c \in Callers :
       (cur[c].pc \in {"terminal", "file"} /\ cur'[c] # cur[c]) =>
         LET id == cur[c].id
         IN /\ UNCHANGED <<fileLines, FILE, stream, LOGGER, logger, LOCKED>>
            /\ \/ TERMINAL_BUFFER' = TERMINAL_BUFFER
               \/ /\ Len(TERMINAL_BUFFER') = Len(TERMINAL_BUFFER) + 1
                  /\ SubSeq(TERMINAL_BUFFER', 1, Len(TERMINAL_BUFFER))
                       = TERMINAL_BUFFER
                  /\ TERMINAL_BUFFER'[Len(TERMINAL_BUFFER')].msg = id
            /\ \/ FILE_BUFFER' = FILE_BUFFER
               \/ /\ Len(FILE_BUFFER') = Len(FILE_BUFFER) + 1
                  /\ SubSeq(FILE_BUFFER', 1, Len(FILE_BUFFER)) = FILE_BUFFER
                  /\ FILE_BUFFER'[Len(FILE_BUFFER')].msg = id

\* with no sink loop running, no line of a log or structured_log call is in
\* the file or on the terminal stream
QueuedCallWroteNothing ==
  \A id \in Ids : calls[id].kind \in Queued =>
    (Count(id, fileLines) = 0 /\ Count(id, stream) = 0)

\* C16: log and structured_log do no I/O in the calling thread: a call only
\* appends its line to the terminal queue and/or the file queue; the file, the
\* file handle, the stream, the configuration and the rollover flag are
\* unchanged by it.
C16_LogOnlyEnqueues == [](QueuedCallWroteNothing) /\ [][QueuedCallStep]_vars

\* C16 witness: a structured_log call that both sinks take has returned: its
\* line is in both queues, the file and the stream are empty.
C16_Witness ==
  \E id \in Ids :
    /\ calls[id].kind = "structured_log"
    /\ calls[id].res = "ok"
    /\ Count(id, TERMINAL_BUFFER) = 1
    /\ Count(id, FILE_BUFFER) = 1
    /\ LOGGER.path = GoodPath
    /\ fileLines = <<>> /\ stream = <<>>

\* the fire-and-forget calls: log and structured_log of output.rs and the
\* synchronous log of logger.rs
FireAndForget == {"log", "structured_log", "logger::log"}

\* C17: a finished fire-and-forget log call whose file sink takes the level
\* has returned normally when the directory or the file could not be created
\* or opened or the write failed: it has neither panicked nor returned an
\* error (standard output is working, so that only the file system fails).
C17_LogNeverFailsVisibly ==
  \A id \in Ids :
    LET r == calls[id]
    IN ( /\ r.kind \in FireAndForget
         /\ r.res # "running"
         /\ ~(r.level < r.snap.output_level \/ Member(r.level, r.snap.ignore))
         /\ r.snap.file_output /\ ~Member(r.level, r.snap.file_ignore)
         /\ (r.snap.path = BadPath \/ (r.snap.path = GoodPath /\ disk = "fail"))
         /\ stdout = "ok" )
       => r.res = "ok"

\* the same for log and structured_log of output.rs alone
QueuedLogReturnsNormally ==
  \A id \in Ids :
    (calls[id].kind \in Queued /\ calls[id].res # "running")
      => calls[id].res = "ok"

\* C21: in a release build every invocation of a debug-only macro, in every
\* form, has expanded to no call and has left no line on any sink (the r_
\* macros have evaluated to Ok(())).
C21_ReleaseDebugMacrosSilent ==
  build = "release" =>
    \A id \in Ids : /\ calls[id].kind = "none"
                    /\ calls[id].res = "ok"
                    /\ NoOutput(id)

\* the template with every placeholder occurrence replaced by its value in one
\* pass from left to right; the values themselves are copied as they are
RECURSIVE Subst(_, _, _)
Subst(text, f, lvl) ==
  LET Starts(ph) == Len(text) >= Len(ph) /\ SubSeq(text, 1, Len(ph)) = ph
      Rest(ph) == SubSeq(text, Len(ph) + 1, Len(text))
  IN IF text = <<>> THEN <<>>
     ELSE IF Starts(P_timestamp)
          THEN f.time \o Subst(Rest(P_timestamp), f, lvl)
     ELSE IF Starts(P_module_path)
          THEN f.module_path \o Subst(Rest(P_module_path), f, lvl)
     ELSE IF Starts(P_message)
          THEN f.message \o Subst(Rest(P_message), f, lvl)
     ELSE IF Starts(P_level) THEN lvl \o Subst(Rest(P_level), f, lvl)
     ELSE <<Head(text)>> \o Subst(Tail(text), f, lvl)

\* the line rendered for the file and the one for the terminal are the
\* template with the placeholders replaced by the values
RenderedAsGiven ==
  /\ fmt.file = Subst(fmt.template, fmt, label(fmt.level))
  /\ fmt.terminal =
       Subst(fmt.template, fmt,
             LOGGER.styles[fmt.level] \o label(fmt.level) \o <<"reset">>)

\* C22: rendering replaces every occurrence of {timestamp}, {module_path},
\* {message} and {level} in the template by its value and leaves every other
\* character of the template, unrecognized placeholders included, as it is;
\* the template "{level} - {message}" with level Info and message
\* "Test message" renders "INFO - Test message" for the file.
C22_TemplateSubstitution ==
  fmt.pc = "done"
  => /\ RenderedAsGiven
     /\ ( /\ fmt.template = P_level \o <<" ", "-", " ">> \o P_message
          /\ fmt.level = Info
          /\ fmt.message = <<"T", "e", "s", "t", " ", "m", "e", "s", "s", "a", "g", "e">> )
        => fmt.file = <<"I", "N", "F", "O", " ", "-", " ">>
                        \o <<"T", "e", "s", "t", " ", "m", "e", "s", "s", "a", "g", "e">>

\* the same for the calls whose call site and message hold no placeholder
\* text
PlainTemplateSubstitution ==
  ( /\ fmt.pc = "done"
    /\ \A k \in DOMAIN fmt.message : fmt.message[k] # "{"
    /\ \A k \in DOMAIN fmt.module_path : fmt.module_path[k] # "{" )
  => RenderedAsGiven

\* C23: the call site and the message appear in the rendered line exactly as
\* given, also when they hold placeholder text, in log, structured_log and
\* result_log.
C23_CallerTextVerbatim == fmt.pc = "done" => RenderedAsGiven

\* C24: right after style(level, list) on a Logger, styles(level) on that
\* Logger is exactly the list, and the style list of every other level is the
\* one it was.
C24_StyleRoundTrip ==
  [][ \A i \in Loggers, l \in StyleLevels, ss \in StyleSets :
        style(i, l, ss) =>
          /\ styles(logger'[i], l) = ss
          /\ \A other \in Level \ {l} :
               styles(logger'[i], other) = styles(logger[i], other) ]_vars

\* C24 witness: style(Info, [Bold]) has been called on Logger "a", whose Info
\* styles were the default ones: styles(Info) is [Bold].
C24_Witness ==
  /\ styles(logger["a"], Info) = <<"Bold">>
  /\ styles(logger["a"], Error) = <<"FGRed">>


\* C25: a Logger created by Logger::new() has no file path, terminal output
\* enabled, file output disabled, and its minimum log level set to Info
C25_NewLoggerDefaults ==
  [][ \A i \in Loggers :
        new(i) =>
          /\ logger'[i].path = NoPath
          /\ logger'[i].terminal_output
          /\ ~logger'[i].file_output
          /\ logger'[i].output_level = Info ]_vars


\* C26: the log file holds one whole rendered line per result_log call: the
\* text and the terminator of one call are never separated by another call's
\* output, so every line of the file is the rendered line of one call
C26_ResultLogLinesWhole ==
  /\ Len(tail) <= 1
  /\ \A k \in 1..Len(fileLines) :
       \E id \in Ids : /\ calls[id].kind = "result_log"
                       /\ fileLines[k] = FileLine(id, calls[id].level)


\* C27: when the configured file cannot be created or opened, a line eligible
\* for the terminal is still pushed to the terminal queue by log and is
\* eventually written to the stream by the terminal sink loop
C27_TerminalUnaffectedByFile ==
  \A id \in 1..MaxFairLogs :
    ( /\ Len(calls) >= id
      /\ calls[id].snap.path = BadPath
      /\ calls[id].snap.file_output
      /\ ~Filtered(calls[id].level, calls[id].snap)
      /\ TerminalCond(calls[id].level, calls[id].snap) )
      ~> ( /\ Count(id, enqT) = 1
           /\ Count(id, stream) = 1 )

\* C27 witness: the path cannot be opened, no handle is held, file output is
\* enabled, and the line of a call made under that configuration is on the
\* stream and in no file
C27_Witness ==
  \E id \in Ids :
    /\ calls[id].snap.path = BadPath /\ calls[id].snap.file_output
    /\ LOGGER.path = BadPath /\ FILE = "none"
    /\ Count(id, enqF) = 1
    /\ Count(id, stream) = 1
    /\ Count(id, fileLines) = 0


\* C28 as claimed: in the terminal sink loop, the file sink loop and the
\* rollover loop, the loop holds no queue lock and no file-handle lock at the
\* moment it flushes its writer
C28_NoLockAcrossFlush ==
  [][ /\ terminal_flush => queueLock.T # "term"
      /\ file_flush => (queueLock.F # "sink" /\ fileLock # "sink")
      /\ roller_flush => fileLock # "roller" ]_vars

\* C28, amended: no queue lock is held at the moment a writer is flushed; the
\* file-handle lock is held across the flush by the file sink loop and by the
\* rollover loop, which write through the guarded handle
C28_OnlyFileLockAcrossFlush ==
  [][ /\ terminal_flush => queueLock.T # "term"
      /\ file_flush => (queueLock.F # "sink" /\ fileLock = "sink")
      /\ roller_flush => fileLock = "roller" ]_vars

\* C28 witness: the file sink is about to flush lines with the FILE guard
\* held and the queue lock released, a caller having pushed a further line
\* since the drain
C28_Witness ==
  /\ sink.pc = "flush" /\ lines_of(sink.writer) # <<>>
  /\ fileLock = "sink"
  /\ queueLock.F = "free"
  /\ FILE_BUFFER # <<>>

\* C29: a sink loop holds its queue lock only to drain and clear the queue:
\* no line reaches the stream or the file while the loop holds the lock of the
\* queue it came from
C29_QueueLockOnlyForDrain ==
  [][ /\ stream' # stream => queueLock.T = "free"
      /\ (fileLines' # fileLines /\ sink'.pc = "flush") => queueLock.F = "free"
    ]_vars


\* C30: the file-handle lock is held only for the critical section: neither
\* the file sink loop nor the rollover loop holds it during its timed sleep,
\* the idle paths included (no handle open, line count not over the threshold)
C30_NoFileLockDuringSleep ==
  /\ sink.pc = "sleep" => fileLock # "sink"
  /\ roller.pc = "sleep" => fileLock # "roller"


\* C31: the background loops have no terminal state: whatever handle FILE
\* holds and whatever file operation fails, the terminal sink, the file sink
\* and the rollover loop each come back to the start of a cycle again and
\* again, and the FILE lock is free again and again for the other loops
C31_LoopsNeverStop ==
  /\ []<>(term.pc = "drain")
  /\ []<>(sink.pc = "read")
  /\ []<>(roller.pc = "read")
  /\ []<>(fileLock = "free")


\* C32: each loop runs on its own cadence: the file sink loop and the
\* rollover loop sleep for the file flush interval after every cycle, active
\* cycles included, and never for the terminal flush interval
C32_OwnCadence ==
  /\ slept.term \in {"none", "terminal_buffer_interval"}
  /\ slept.sink \in {"none", "file_buffer_interval"}
  /\ slept.roller \in {"none", "file_buffer_interval"}


\* the levels logger.rs declares
SourceLevels == {Trace, Debug, Info, Warning, Error, Critical, Diagnostic, None}

\* C33: in every reachable configuration, of a Logger value or published,
\* every Level has a style entry: no operation removes one, so add_style,
\* remove_style, styles and the terminal rendering never miss an entry
C33_EveryLevelHasStyles ==
  /\ \A i \in Loggers : SourceLevels \subseteq DOMAIN logger[i].styles
  /\ SourceLevels \subseteq DOMAIN LOGGER.styles

\* C33 witness: a published configuration whose list for Info has been
\* replaced and then emptied by remove_style, the entry still there
C33_Witness ==
  /\ Info \in DOMAIN LOGGER.styles
  /\ styles(LOGGER, Info) = <<>>
  /\ styles(logger["a"], Info) = <<>>


\* C34: with file output enabled and a path whose file cannot be created or
\* opened, a line queued for the file does not stay in the file queue: while
\* that configuration lasts the line is dropped, so the queue does not grow
\* with the number of log calls
C34_UnopenableFileDropsLines ==
  \A id \in 1..MaxFairLogs :
    ( /\ Count(id, FILE_BUFFER) = 1
      /\ LOGGER.file_output /\ LOGGER.path = BadPath /\ FILE = "none" )
      ~> ( \/ Count(id, FILE_BUFFER) = 0
           \/ ~LOGGER.file_output
           \/ LOGGER.path # BadPath )


\* the thread's next lock operation is an acquisition
Wants(t) ==
  /\ locking[t].todo # <<>>
  /\ Head(locking[t].todo).op \in {"read", "write"}

\* t cannot get the lock it asks for before u moves: u holds that lock in a
\* mode that excludes t's, or t asks for a read lock that u is waiting to
\* write (a RwLock may keep new readers behind a waiting writer)
WaitsFor(t, u) ==
  /\ Wants(t)
  /\ LET want == Head(locking[t].todo)
     IN \/ \E h \in locking[u].holds :
             /\ h.lock = want.lock
             /\ (u = t \/ want.op = "write" \/ h.op = "write")
        \/ /\ u # t
           /\ want.op = "read"
           /\ Wants(u)
           /\ Head(locking[u].todo) = [op |-> "write", lock |-> want.lock]

\* u is reached from t along at most n waits
RECURSIVE WaitChain(_, _, _)
WaitChain(t, u, n) ==
  /\ n > 0
  /\ \/ WaitsFor(t, u)
     \/ \E v \in LockThreads : WaitsFor(t, v) /\ WaitChain(v, u, n - 1)

\* no thread waits, through any chain of waits, for itself
NoWaitCycle ==
  \A t \in LockThreads : ~WaitChain(t, t, Cardinality(LockThreads))

\* a thread that asks for a lock while it holds one holds the FILE lock alone
\* and asks for the file queue's lock or the flag's
LockOrder ==
  \A t \in LockThreads :
    (Wants(t) /\ locking[t].holds # {})
      => /\ locking[t].holds = {[op |-> "write", lock |-> "FILE"]}
         /\ Head(locking[t].todo).lock \in {"FILE_BUFFER", "LOCKED"}

\* C35: the system is deadlock-free: with callers running log,
\* structured_log, result_log and setters beside the three loops, no threads
\* ever wait for each other in a cycle on the configuration lock, the two
\* queue locks, the file-handle lock and the flag lock, and every nested
\* acquisition is the file-handle lock first, then the file queue's lock or
\* the flag's.
C35_DeadlockFree == NoWaitCycle /\ LockOrder

\* C35 witness: the file sink holds the file-handle lock and waits for the
\* file queue's lock, which a caller holds for its push; the rollover loop
\* waits for the file-handle lock; a setter holds the configuration lock for
\* writing and the other caller waits to read it.
C35_Witness ==
  /\ locking["sink"].holds = {[op |-> "write", lock |-> "FILE"]}
  /\ WaitsFor("sink", "t1")
  /\ locking["t1"].holds = {[op |-> "write", lock |-> "FILE_BUFFER"]}
  /\ WaitsFor("roller", "sink")
  /\ locking["setter"].holds = {[op |-> "write", lock |-> "LOGGER"]}
  /\ WaitsFor("t2", "setter")
  /\ WaitsFor("term", "setter")

\* C36: the rollover flag is true only while the rollover loop holds the
\* file-handle lock, from before its truncation to after its rewrite: the
\* file sink is then not writing to the file, and the flag is false whenever
\* the rollover loop is idle, waiting or sleeping
C36_FlagOnlyUnderFileLock ==
  /\ LOCKED => ( /\ fileLock = "roller"
                 /\ roller.pc \in {"truncate", "rewrite", "unflag"} )
  /\ LOCKED => sink.pc \notin {"drain", "write", "flush"}
  /\ roller.pc \in {"read", "lock", "sleep"} => ~LOCKED

\* C36 witness: the flag is set in the middle of a rollover while the file
\* sink, with a line queued, waits for the file-handle lock
C36_Witness ==
  /\ LOCKED /\ fileLock = "roller"
  /\ sink.pc = "lock"
  /\ FILE_BUFFER # <<>>


\* the lines of a queue not yet handed to the writer: none once the terminal
\* sink has written the queue's content and is about to clear it; for the file
\* sink, inside its for_each, the lines it has still to write
PendingT == IF term.pc = "clear" THEN <<>> ELSE TERMINAL_BUFFER
PendingF == IF sink.pc = "write" THEN lines_of(sink.left) ELSE FILE_BUFFER

\* C37: drain-and-clear is atomic with respect to producers: the lines pushed
\* to a queue are, in order, the lines handed to the writer so far followed
\* by the lines still queued, so that no line is cleared without having been
\* handed over and none is handed over twice
C37_DrainAtomic ==
  /\ enqT = stream \o lines_of(term.writer) \o PendingT
  /\ enqF = wroteF \o PendingF

\* C37 witness: the terminal sink has handed the queue's lines to its writer
\* and not yet cleared the queue, while a caller waits to push its line
C37_Witness ==
  /\ term.pc = "clear" /\ TERMINAL_BUFFER # <<>>
  /\ lines_of(term.writer) = TERMINAL_BUFFER
  /\ queueLock.T = "term"
  /\ \E c \in Callers : cur[c].pc = "terminal"


\* the texts the file holds once a rollover that has truncated it has written
\* back the lines it kept
Retained ==
  IF roller.pc = "rewrite"
  THEN FileTexts \o Flatten(lines_of(roller.writer \o roller.left))
  ELSE FileTexts

\* the retained texts written after the line of call id
Newer(id) == {k \in 1..Len(Retained) : Retained[k].msg > id}

\* C38: a line appended to the file by result_log is not destroyed by a
\* concurrent rollover: once the call has returned Ok its line is among the
\* retained lines unless at least as many newer lines as the threshold
\* retains follow it
C38_ResultLineSurvivesRollover ==
  \A id \in Ids :
    ( /\ calls[id].kind = "result_log"
      /\ calls[id].res = "ok"
      /\ FileCond(calls[id].level, calls[id].snap) )
    => \/ Count(id, Retained) = 1
       \/ Cardinality(Newer(id)) >= LOGGER.file_rollover


\* the fields of the shared configuration a step changes
Changed == {g \in DOMAIN LOGGER : LOGGER'[g] # LOGGER[g]}

\* C39 as stated: a setter called on one Logger changes only its own field
\* of the shared configuration; the fields published earlier through
\* another Logger keep their values
C39_SetterChangesOnlyItsField ==
  [][ \A i \in Loggers :
        /\ \A v \in BOOLEAN :
             terminal(i, v) => Changed \subseteq {"terminal_output"}
        /\ \A l \in {Error, None} :
             level(i, l) => Changed \subseteq {"output_level"}
        /\ Setter(i) => Cardinality(Changed) <= 1 ]_vars

\* C39 amended: a setter that publishes replaces every field of the shared
\* configuration with the field of the Logger it was called on, so a field
\* published earlier through another Logger keeps its value only where the
\* calling Logger holds the same value; style, which does not publish,
\* leaves the shared configuration as it was
C39_SetterReplacesShared ==
  [][ \A i \in Loggers :
        Setter(i) =>
          IF \E l \in StyleLevels, ss \in StyleSets : style(i, l, ss)
          THEN LOGGER' = LOGGER
          ELSE LOGGER' = logger'[i] ]_vars

\* Logger "a" published a minimum level, then a setter of Logger "b", which
\* never set a level, turned the terminal off: the shared configuration is
\* that of "b", minimum level included
C39_Witness ==
  /\ logger["a"].output_level = Error
  /\ logger["b"].output_level = Trace
  /\ ~logger["b"].terminal_output
  /\ logger["a"].terminal_output
  /\ LOGGER = logger["b"]

====
